---- MODULE Spec2Model ----
(***************************************************************************)
(* Resumable multipart upload of glacier-upload                            *)
(* (src/src/glacier_upload/upload.py: multipart_upload and upload_part;    *)
(* the tree hash of src/glacier.py).                                       *)
(*                                                                         *)
(* One run of multipart_upload is modelled: the main thread plans the      *)
(* parts, creates or resumes the session, verifies the parts the store     *)
(* lists, submits one future per unconfirmed part to a thread pool, waits  *)
(* with FIRST_EXCEPTION, and either cancels and aborts or collects the     *)
(* results, computes the total tree hash and completes the upload.         *)
(* Worker threads run upload_part.                                         *)
(*                                                                         *)
(* Bytes are naturals, a digest is a sequence of naturals:                 *)
(* SHA-256 is an injective bracketing of its input, hexdigest and          *)
(* unhexlify shift the alphabet.                                           *)
(* The store lists parts of this session: one entry per offset,            *)
(* at planned offsets, whose digest is that of the local bytes or of a     *)
(* stale copy.  The session-level calls of the store (initiate, list,      *)
(* complete) return; upload_multipart_part may return the right checksum,  *)
(* a wrong one, or raise.                                                  *)
(*                                                                         *)
(* Spec is one run of multipart_upload on a session of the run's own part  *)
(* size.  ResumeSpec is the same run on a session that may have been       *)
(* created with another part size.  ArchiveSpec is upload_archive, from    *)
(* the tests of the part size to the session call of multipart_upload,     *)
(* with file sizes as numbers.  HashSpec is the two hash functions on byte  *)
(* strings and digest lists of every shape.  FaultSpec is the runs of Spec *)
(* and the single request of a small file, with session-level store calls  *)
(* that may raise.  UploadSpec is the run of Spec followed into the        *)
(* finally of upload_archive that closes the file.  FairSpec is the run   *)
(* of Spec on files of few parts, with every enabled step taken in the     *)
(* end.                                                                    *)
(* LegacySpec is main() of src/main.py, the first                          *)
(* revision of the upload, with its lists job_list and list_of_checksums.  *)
(* JobOutputSpec is get_job_output of get_job_output.py on a completed     *)
(* archive retrieval, with batch_request_retrying.  DownloadSpec is the    *)
(* chunked download of archives.get with download_archive_part.            *)
(***************************************************************************)
EXTENDS Integers, Sequences, FiniteSets, TLC

\* ---------------------------------------------------------------- bounds
\* stand-in for the 1 MiB leaf of the tree hash (1024 * 1024 bytes)
MiB == 2
\* largest file modelled, in bytes
MaxFileSize == 5
\* smallest file modelled is MaxFileSize - FileSizeSpread
FileSizeSpread == 1
\* largest part size modelled, in MiB (a power of two)
MaxPartSizeMb == 2
\* largest thread pool modelled
MaxThreads == 2
\* most stale entries in the list of parts the store reports
MaxStale == 1
\* part sizes asked of upload_archive: from PartSizeMargin below 1 MiB to
\* PartSizeMargin above MAX_PART_SIZE_MB
PartSizeMargin == 2
\* file sizes given to upload_archive: within SizeSlack bytes of a size
\* at which its decisions change
SizeSlack == 1
\* longest list of digests given to calculate_total_tree_hash on its own
MaxDigests == 4
\* longest byte string given to calculate_tree_hash on its own
MaxHashBytes == 5
\* most parts of a run whose termination is checked
MaxFairParts == 2
\* largest part size of a run whose termination is checked, in MiB
MaxFairPartSizeMb == 1

\* ------------------------------------------------------------- constants
MAX_UPLOAD_ATTEMPTS == 10
MAX_NUMBER_OF_PARTS == 10000
MIN_PART_SIZE_MB == 1
MAX_PART_SIZE_MB == 4096
\* 100 * 1024 * 1024
SINGLE_UPLOAD_THRESHOLD_BYTES == 100 * MiB

None == <<>>
NoUploadId == "None"
NoExc == "None"

Min(a, b) == IF a < b THEN a ELSE b

\* python range(start, stop, step) as a sequence
Range(start, stop, step) ==
    [i \in 1..(IF stop > start THEN (stop - start + step - 1) \div step ELSE 0)
        |-> start + (i - 1) * step]

\* python s[lo:hi] on a sequence (0-based, hi exclusive, clipped)
Slice(s, lo, hi) ==
    LET h == Min(hi, Len(s))
    IN  IF lo >= h THEN <<>> ELSE SubSeq(s, lo + 1, h)

\* --------------------------------------------------------------- hashing
\* hashlib.sha256(data).digest(): an injective function of the bytes
Sha256(data) == <<100>> \o data \o <<101>>

\* bytes -> hex string, and back
Hexlify(raw) == [i \in 1..Len(raw) |-> raw[i] + 1000]
Unhexlify(hex) == [i \in 1..Len(hex) |-> hex[i] - 1000]

Sha256Hex(data) == Hexlify(Sha256(data))

\* variant: an odd last element is paired with itself
TreeParent_selfpair(tree) ==
    [k \in 1..((Len(tree) + 1) \div 2) |->
        IF 2 * k <= Len(tree)
        THEN Sha256Hex(Unhexlify(tree[2 * k - 1]) \o Unhexlify(tree[2 * k]))
        ELSE Sha256Hex(Unhexlify(tree[2 * k - 1]) \o Unhexlify(tree[2 * k - 1]))]

\* one level of calculate_total_tree_hash: pair neighbours, carry an odd last
TreeParent(tree) ==
    [k \in 1..((Len(tree) + 1) \div 2) |->
        IF 2 * k <= Len(tree)
        THEN Sha256Hex(Unhexlify(tree[2 * k - 1]) \o Unhexlify(tree[2 * k]))
        ELSE tree[2 * k - 1]]

\* tree[0] of an empty list raises IndexError
IndexError == <<-1>>

RECURSIVE calculate_total_tree_hash(_)
calculate_total_tree_hash(list_of_checksums) ==
    IF Len(list_of_checksums) = 0 THEN IndexError
    ELSE IF Len(list_of_checksums) = 1 THEN list_of_checksums[1]
    ELSE calculate_total_tree_hash(TreeParent(list_of_checksums))

\* variant: the part is hashed in one piece
calculate_tree_hash_flat(part, part_size) == Sha256Hex(part)

calculate_tree_hash(part, part_size) ==
    LET upper_bound == Min(Len(part), part_size)
        starts == Range(0, upper_bound, MiB)
        checksums == [k \in 1..Len(starts) |->
                        Sha256Hex(Slice(part, starts[k], starts[k] + MiB))]
    IN  calculate_total_tree_hash(checksums)

\* ------------------------------------------- insertion-ordered dictionary
\* a python dict: a sequence of <<key, value>> in insertion order
DictHas(d, k) == \E i \in 1..Len(d) : d[i][1] = k

DictGet(d, k) == d[CHOOSE i \in 1..Len(d) : d[i][1] = k][2]

\* variant: d[k] = v re-inserts the key at the end
DictSet_moves(d, k, v) ==
    SelectSeq(d, LAMBDA e : e[1] # k) \o <<(<<k, v>>)>>

\* d[k] = v keeps the position of a key that is present
DictSet(d, k, v) ==
    IF DictHas(d, k)
    THEN [i \in 1..Len(d) |-> IF d[i][1] = k THEN <<k, v>> ELSE d[i]]
    ELSE Append(d, <<k, v>>)

DictKeys(d) == [i \in 1..Len(d) |-> d[i][1]]

DictValues(d) == [i \in 1..Len(d) |-> d[i][2]]

\* ----------------------------------------------------------------- file
\* fp.seek(pos); fp.read(n): the bytes [pos, min(pos + n, size))
FileRead(file, pos, n) == Slice(file, pos, pos + n)

\* the file modelled: every byte differs, so do the parts
FileBytes(size) == [i \in 1..size |-> i - 1]

\* ------------------------------------------------------------ the store
\* the digest the store holds for a part it received intact
LocalDigest(file, byte_start, part_size) ==
    calculate_tree_hash(FileRead(file, byte_start, part_size), part_size)

\* the digest the store holds for a part whose bytes differ from the file's
StaleBytes(part) == [i \in 1..Len(part) |-> IF i = 1 THEN part[1] + 50 ELSE part[i]]

StaleDigest(file, byte_start, part_size) ==
    calculate_tree_hash(StaleBytes(FileRead(file, byte_start, part_size)), part_size)

\* the list_parts entry of one part
PartData(file, byte_start, part_size, tag) ==
    [RangeInBytes |-> <<byte_start, Min(byte_start + part_size, Len(file)) - 1>>,
     SHA256TreeHash |-> IF tag = "good"
                        THEN LocalDigest(file, byte_start, part_size)
                        ELSE StaleDigest(file, byte_start, part_size)]

\* every list the store can report for the session: any subset of the
\* planned offsets, ascending, each digest intact or (at most MaxStale of
\* them) stale
RemoteLists(file, part_size) ==
    LET offs == Range(0, Len(file), part_size)
        n == Len(offs)
        Listing(t) ==
            LET kept == SelectSeq([i \in 1..n |-> i], LAMBDA i : t[i] # "absent")
            IN  [k \in 1..Len(kept) |->
                    PartData(file, offs[kept[k]], part_size, t[kept[k]])]
    IN  {Listing(t) : t \in {u \in [1..n -> {"absent", "good", "stale"}] :
                Cardinality({i \in 1..n : u[i] = "stale"}) <= MaxStale}}

PartSizesMb == {m \in {1, 2, 4, 8} : m <= MaxPartSizeMb}

VARIABLES
    file_to_upload,     \* the bytes of the local file
    fp,                 \* the file handle's cursor
    part_size_bytes,
    num_threads,
    upload_id,          \* NoUploadId until the session is known
    remote_parts,       \* what list_parts reports for the session
    pc,                 \* the main thread's position
    part_list,          \* dict byte_start -> checksum or None
    parts,              \* the fetched remote list
    verify_i,           \* index of the next entry of parts to verify
    to_submit,          \* byte positions still to submit
    futures,            \* the futures, in submission order
    work_queue,         \* the executor's queue of future ids
    fileblock,          \* future id holding the file lock, 0 when free
    done,               \* wait(): future ids finished
    not_done,           \* wait(): future ids not finished
    loop_rest,          \* future ids the running for loop has yet to visit
    raising,            \* exception propagating in the main thread
    total_tree_hash,
    response_checksum,  \* checksum of the complete_multipart_upload response
    api,                \* number of calls of each session-level operation
    echoed,             \* messages printed
    file_size,          \* upload_archive: file_to_upload.seek(0, 2)
    part_size_mb,       \* upload_archive: the part size asked for, in MiB
    new_part_size,      \* upload_archive: the part size it proposes, 0 before
    PartSizeInBytes,    \* the part size of the session in the store, 0 without
    job_list,           \* main.py: byte positions to upload
    list_of_checksums,  \* main.py: checksum or None of each part number
    closed,             \* file_to_upload.closed
    final_byte,         \* get_job_output: end of RetrievalByteRange
    batch_size,         \* get_job_output: int(batch_size)
    range_i,            \* get_job_output: the loop variable i
    out_file,           \* get_job_output: the bytes written to file_name
    batches,            \* get_job_output: the byte range of each batch asked for
    byte_range,         \* batch_request_retrying: the range it was called with
    tries,              \* batch_request_retrying: tries
    status_code,        \* batch_request_retrying: status_code
    response_status,    \* batch_request_retrying: response['status']
    archive,            \* archives.get: the bytes of the archive in the store
    part_files,         \* archives.get: content of each part file, by number
    final_file,         \* archives.get: content of file_name
    part_number         \* archives.get: the loop variable part_number

vars == <<file_to_upload, fp, part_size_bytes, num_threads, upload_id,
          remote_parts, pc, part_list, parts, verify_i, to_submit, futures,
          work_queue, fileblock, done, not_done, loop_rest, raising, total_tree_hash,
          response_checksum, api, echoed, file_size, part_size_mb,
          new_part_size, PartSizeInBytes,
          job_list, list_of_checksums, closed,
          final_byte, batch_size, range_i, out_file, batches, byte_range,
          tries, status_code, response_status,
          archive, part_files, final_file, part_number>>

\* the state of the uploads that the downloads do not share
upload_vars == <<file_to_upload, fp, part_size_bytes, num_threads, upload_id,
                 remote_parts, part_list, parts, verify_i, to_submit,
                 work_queue, fileblock, done, not_done, total_tree_hash,
                 response_checksum, api, file_size, part_size_mb,
                 new_part_size, PartSizeInBytes, job_list, list_of_checksums,
                 closed>>

\* the state of get_job_output and batch_request_retrying
job_output_vars == <<final_byte, batch_size, range_i, out_file, batches,
                     byte_range, tries, status_code, response_status>>

\* the state of archives.get that the uploads do not share
download_vars == <<archive, part_files, final_file, part_number>>

\* a file that does not exist
NoFile == <<-2>>

\* no download is under way
NoDownload ==
    /\ final_byte = 0
    /\ batch_size = 0
    /\ range_i = 0
    /\ out_file = NoFile
    /\ batches = <<>>
    /\ byte_range = <<>>
    /\ tries = 0
    /\ status_code = 0
    /\ response_status = 0
    /\ archive = <<>>
    /\ part_files = <<>>
    /\ final_file = NoFile
    /\ part_number = 0

\* no upload is under way
NoUpload ==
    /\ file_to_upload = <<>>
    /\ fp = 0
    /\ part_size_bytes = 0
    /\ num_threads = 0
    /\ upload_id = "None"
    /\ remote_parts = <<>>
    /\ part_list = <<>>
    /\ parts = <<>>
    /\ verify_i = 0
    /\ to_submit = <<>>
    /\ work_queue = <<>>
    /\ fileblock = 0
    /\ done = {}
    /\ not_done = {}
    /\ total_tree_hash = <<>>
    /\ response_checksum = <<>>
    /\ api = <<>>
    /\ file_size = 0
    /\ part_size_mb = 0
    /\ new_part_size = 0
    /\ PartSizeInBytes = 0
    /\ job_list = <<>>
    /\ list_of_checksums = <<>>
    /\ closed = FALSE

\* what no step of multipart_upload and upload_part assigns
inputs == <<file_to_upload, part_size_bytes, num_threads, remote_parts,
            file_size, part_size_mb, new_part_size, job_list,
            list_of_checksums, closed, job_output_vars, download_vars>>

file_size_bytes == Len(file_to_upload)

\* the store's session-level operations (upload_multipart_part is counted
\* per part, in the future that calls it)
ApiNames == {"initiate_multipart_upload", "list_parts",
             "complete_multipart_upload", "abort_multipart_upload",
             "upload_archive"}

\* variant: the request is sent twice
Call_twice(name) == [api EXCEPT ![name] = @ + 2]

Call(name) == [api EXCEPT ![name] = @ + 1]

\* variant: only the whole parts are planned
PlannedPartList_whole(size, part_size) ==
    [i \in 1..(size \div part_size) |-> <<(i - 1) * part_size, None>>]

\* part_list = {byte_start: None for byte_start in range(0, size, part_size)}
PlannedPartList(size, part_size) ==
    LET offs == Range(0, size, part_size)
    IN  [i \in 1..Len(offs) |-> <<offs[i], None>>]

num_parts == Len(Range(0, file_size_bytes, part_size_bytes))

Init ==
    /\ \E size \in (MaxFileSize - FileSizeSpread)..MaxFileSize :
            file_to_upload = FileBytes(size)
    /\ \E mb \in PartSizesMb :
            part_size_mb = mb /\ part_size_bytes = mb * MiB
    /\ file_size = Len(file_to_upload)
    /\ new_part_size = 0
    /\ job_list = <<>>
    /\ list_of_checksums = <<>>
    /\ closed = FALSE
    /\ NoDownload
    /\ num_threads \in 1..MaxThreads
    /\ \/ /\ upload_id = NoUploadId
          /\ PartSizeInBytes = 0
          /\ remote_parts = <<>>
       \/ /\ upload_id = "upload-1"
          /\ PartSizeInBytes = part_size_bytes
          /\ remote_parts \in RemoteLists(file_to_upload, part_size_bytes)
    /\ fp = 0
    /\ pc = "start"
    /\ part_list = PlannedPartList(Len(file_to_upload), part_size_bytes)
    /\ parts = <<>>
    /\ verify_i = 1
    /\ to_submit = <<>>
    /\ futures = <<>>
    /\ work_queue = <<>>
    /\ fileblock = 0
    /\ done = {}
    /\ not_done = {}
    /\ loop_rest = {}
    /\ raising = NoExc
    /\ total_tree_hash = None
    /\ response_checksum = None
    /\ api = [n \in ApiNames |-> 0]
    /\ echoed = {}

\* --------------------------------------------------------- main thread
NewFuture(byte_pos) ==
    [byte_pos |-> byte_pos, state |-> "PENDING", result |-> None,
     exception |-> NoExc, wpc |-> "queued", part |-> None, checksum |-> None,
     attempt |-> 0, error |-> NoExc, retried |-> FALSE,
     range_header |-> None, response |-> None]

\* upload_id is None: glacier.initiate_multipart_upload(...,
\* partSize=str(part_size_bytes))
InitiateMultipartUpload ==
    /\ pc = "start"
    /\ upload_id = NoUploadId
    /\ api' = Call("initiate_multipart_upload")
    /\ PartSizeInBytes' = part_size_bytes
    /\ upload_id' = "upload-1"
    /\ pc' = "spawn"
    /\ UNCHANGED <<inputs, fp, part_list, parts, verify_i, to_submit, futures,
                   work_queue, fileblock, done, not_done, loop_rest, raising,
                   total_tree_hash, response_checksum, echoed>>

\* variant: the parts are listed whether or not an upload id was given
Resuming_always(id) == TRUE

\* the else of "if upload_id is None"
Resuming(id) == id # NoUploadId

\* resuming: list(paginator.paginate(...).search("Parts"))
FetchParts ==
    /\ pc = "start"
    /\ Resuming(upload_id)
    /\ echoed' = echoed \cup {"Resuming upload with id"}
    /\ api' = Call("list_parts")
    /\ parts' = remote_parts
    /\ verify_i' = 1
    /\ pc' = "verify"
    /\ UNCHANGED <<inputs, PartSizeInBytes, fp, upload_id, part_list, to_submit, futures,
                   work_queue, fileblock, done, not_done, loop_rest, raising,
                   total_tree_hash, response_checksum>>

\* variant: every listed part is taken as verified
ChecksumMatches_always(checksum, part_data) == TRUE

\* if checksum == part_data["SHA256TreeHash"]
ChecksumMatches(checksum, part_data) == checksum = part_data.SHA256TreeHash

\* one iteration of "for part_data in parts"; tree[0] of the empty list of
\* leaf checksums raises IndexError, outside any try
VerifyPart ==
    /\ pc = "verify"
    /\ verify_i <= Len(parts)
    /\ LET part_data == parts[verify_i]
           byte_start == part_data.RangeInBytes[1]
           part == FileRead(file_to_upload, byte_start, part_size_bytes)
           checksum == calculate_tree_hash(part, part_size_bytes)
       IN  /\ fp' = byte_start + Len(part)
           /\ IF checksum = IndexError
              THEN /\ raising' = "IndexError"
                   /\ pc' = "raised"
                   /\ UNCHANGED <<part_list, verify_i>>
              ELSE /\ part_list' = IF ChecksumMatches(checksum, part_data)
                                   THEN DictSet(part_list, byte_start, checksum)
                                   ELSE part_list
                   /\ verify_i' = verify_i + 1
                   /\ UNCHANGED <<raising, pc>>
    /\ UNCHANGED <<inputs, PartSizeInBytes, upload_id, parts, to_submit,
                   futures, work_queue, fileblock, done, not_done, loop_rest,
                   total_tree_hash, response_checksum, api, echoed>>

VerifyDone ==
    /\ pc = "verify"
    /\ verify_i > Len(parts)
    /\ pc' = "spawn"
    /\ UNCHANGED <<inputs, PartSizeInBytes, fp, upload_id, part_list, parts, verify_i, to_submit,
                   futures, work_queue, fileblock, done, not_done, loop_rest,
                   raising, total_tree_hash, response_checksum, api, echoed>>

\* variant: the parts are submitted in two rounds
UnconfirmedParts_twice(d) ==
    DictKeys(SelectSeq(d, LAMBDA e : e[2] = None))
        \o DictKeys(SelectSeq(d, LAMBDA e : e[2] = None))

\* [part for part, checksum in part_list.items() if checksum is None]
UnconfirmedParts(d) == DictKeys(SelectSeq(d, LAMBDA e : e[2] = None))

\* the executor and the lock are created, the list to submit is evaluated
Spawn ==
    /\ pc = "spawn"
    /\ to_submit' = UnconfirmedParts(part_list)
    /\ pc' = "submit"
    /\ UNCHANGED <<inputs, PartSizeInBytes, fp, upload_id, part_list, parts, verify_i, futures,
                   work_queue, fileblock, done, not_done, loop_rest, raising,
                   total_tree_hash, response_checksum, api, echoed>>

\* future = executor.submit(upload_part, byte_pos, ...)
Submit ==
    /\ pc = "submit"
    /\ to_submit # <<>>
    /\ futures' = Append(futures, NewFuture(Head(to_submit)))
    /\ work_queue' = Append(work_queue, Len(futures) + 1)
    /\ to_submit' = Tail(to_submit)
    /\ UNCHANGED <<inputs, PartSizeInBytes, fp, upload_id, pc, part_list, parts, verify_i,
                   fileblock, done, not_done, loop_rest, raising,
                   total_tree_hash, response_checksum, api, echoed>>

IsDone(f) == f.state \in {"FINISHED", "CANCELLED"}

\* concurrent.futures.wait(futures_list, return_when=FIRST_EXCEPTION)
WaitReturns ==
    /\ pc = "submit"
    /\ to_submit = <<>>
    /\ \/ \E i \in DOMAIN futures :
            futures[i].state = "FINISHED" /\ futures[i].exception # NoExc
       \/ \A i \in DOMAIN futures : IsDone(futures[i])
    /\ done' = {i \in DOMAIN futures : IsDone(futures[i])}
    /\ not_done' = {i \in DOMAIN futures : ~IsDone(futures[i])}
    /\ loop_rest' = IF not_done' # {} THEN not_done' ELSE done'
    /\ pc' = IF not_done' # {} THEN "cancel" ELSE "collect"
    /\ UNCHANGED <<inputs, PartSizeInBytes, fp, upload_id, part_list, parts, verify_i, to_submit,
                   futures, work_queue, fileblock, raising, total_tree_hash,
                   response_checksum, api, echoed>>

\* variant: cancel() also takes back a future that has run
Cancellable_any(f) == TRUE

\* Future.cancel() succeeds only on a future that has not started
Cancellable(f) == f.state = "PENDING"

\* future.cancel(): only a future that has not started is cancelled; its
\* work item is then skipped by the pool
CancelFuture ==
    /\ pc = "cancel"
    /\ \E i \in loop_rest :
        /\ loop_rest' = loop_rest \ {i}
        /\ IF Cancellable(futures[i])
           THEN /\ futures' = [futures EXCEPT ![i].state = "CANCELLED"]
                /\ work_queue' = SelectSeq(work_queue, LAMBDA j : j # i)
           ELSE UNCHANGED <<futures, work_queue>>
    /\ UNCHANGED <<inputs, PartSizeInBytes, fp, upload_id, pc, part_list, parts, verify_i,
                   to_submit, fileblock, done, not_done, raising,
                   total_tree_hash, response_checksum, api, echoed>>

\* the exceptions of the done futures are printed, then the upload id, and
\* click.Abort is raised
ReportAbort ==
    /\ pc = "cancel"
    /\ loop_rest = {}
    /\ echoed' = echoed \cup {"Upload can still be resumed. Upload ID"}
                        \cup (IF \E i \in done : futures[i].exception # NoExc
                              THEN {"Exception occurred"} ELSE {})
    /\ raising' = "Abort"
    /\ pc' = "shutdown"
    /\ UNCHANGED <<inputs, PartSizeInBytes, fp, upload_id, part_list, parts, verify_i, to_submit,
                   futures, work_queue, fileblock, done, not_done, loop_rest,
                   total_tree_hash, response_checksum, api>>

\* variant: the result is read without re-raising
FutureRaises_never(f) == FALSE

\* future.result() raises the exception of a future that raised
FutureRaises(f) == f.exception # NoExc

\* one iteration of "for future in done": part_list[byte_start] = future.result()
CollectResult ==
    /\ pc = "collect"
    /\ \E i \in loop_rest :
        IF FutureRaises(futures[i])
        THEN /\ raising' = futures[i].exception
             /\ pc' = "shutdown"
             /\ UNCHANGED <<part_list, loop_rest>>
        ELSE /\ part_list' = DictSet(part_list, futures[i].byte_pos,
                                      futures[i].result)
             /\ loop_rest' = loop_rest \ {i}
             /\ UNCHANGED <<raising, pc>>
    /\ UNCHANGED <<inputs, PartSizeInBytes, fp, upload_id, parts, verify_i, to_submit, futures,
                   work_queue, fileblock, done, not_done, total_tree_hash,
                   response_checksum, api, echoed>>

CollectDone ==
    /\ pc = "collect"
    /\ loop_rest = {}
    /\ pc' = "shutdown"
    /\ UNCHANGED <<inputs, PartSizeInBytes, fp, upload_id, part_list, parts, verify_i, to_submit,
                   futures, work_queue, fileblock, done, not_done, loop_rest,
                   raising, total_tree_hash, response_checksum, api, echoed>>

\* variant: shutdown(wait=False)
ShutdownJoined_nowait(futs, queue) == TRUE

\* leaving "with ThreadPoolExecutor": shutdown(wait=True) joins the workers,
\* which first run every work item still queued
ShutdownJoined(futs, queue) ==
    /\ queue = <<>>
    /\ \A i \in DOMAIN futs : futs[i].state # "RUNNING"

ExecutorExit ==
    /\ pc = "shutdown"
    /\ ShutdownJoined(futures, work_queue)
    /\ pc' = IF raising # NoExc THEN "raised" ELSE "hash"
    /\ UNCHANGED <<inputs, PartSizeInBytes, fp, upload_id, part_list, parts, verify_i, to_submit,
                   futures, work_queue, fileblock, done, not_done, loop_rest,
                   raising, total_tree_hash, response_checksum, api, echoed>>

\* total_tree_hash = calculate_total_tree_hash(list(part_list.values()))
ComputeTotalTreeHash ==
    /\ pc = "hash"
    /\ total_tree_hash' = calculate_total_tree_hash(DictValues(part_list))
    /\ pc' = "complete"
    /\ UNCHANGED <<inputs, PartSizeInBytes, fp, upload_id, part_list, parts, verify_i, to_submit,
                   futures, work_queue, fileblock, done, not_done, loop_rest,
                   raising, response_checksum, api, echoed>>

\* a checksum of the store that differs from every tree hash of the file
ForeignChecksum == Sha256Hex(<<99>>)

\* glacier.complete_multipart_upload(...); the response is printed
CompleteMultipartUpload ==
    /\ pc = "complete"
    /\ api' = Call("complete_multipart_upload")
    /\ response_checksum' \in {total_tree_hash, ForeignChecksum}
    /\ echoed' = echoed \cup {"Upload successful."}
    /\ pc' = "done"
    /\ UNCHANGED <<inputs, PartSizeInBytes, fp, upload_id, part_list, parts, verify_i, to_submit,
                   futures, work_queue, fileblock, done, not_done, loop_rest,
                   raising, total_tree_hash>>

\* --------------------------------------------------------- worker threads
Running(futs) == {i \in DOMAIN futs : futs[i].state = "RUNNING"}

WorkerUnchanged ==
    UNCHANGED <<inputs, PartSizeInBytes, upload_id, pc, part_list, parts, verify_i, to_submit,
                done, not_done, loop_rest, raising, total_tree_hash,
                response_checksum, echoed>>

\* variant: the pool starts a thread for every work item
WorkerFree_always(futs, max_workers) == TRUE

\* ThreadPoolExecutor(max_workers=num_threads): a thread of the pool is idle
\* or can still be started
WorkerFree(futs, max_workers) == Cardinality(Running(futs)) < max_workers

\* a free worker of the pool takes the next work item
StartWork(i) ==
    /\ work_queue # <<>>
    /\ Head(work_queue) = i
    /\ WorkerFree(futures, num_threads)
    /\ futures' = [futures EXCEPT ![i].state = "RUNNING", ![i].wpc = "acquire"]
    /\ work_queue' = Tail(work_queue)
    /\ UNCHANGED <<fp, fileblock, api>>
    /\ WorkerUnchanged

\* variant: the lock is taken without waiting for it
LockFree_always(lock) == TRUE

\* threading.Lock: acquire returns when no thread holds the lock
LockFree(lock) == lock = 0

\* with fileblock:
AcquireLock(i) ==
    /\ futures[i].wpc = "acquire"
    /\ LockFree(fileblock)
    /\ fileblock' = i
    /\ futures' = [futures EXCEPT ![i].wpc = "seek"]
    /\ UNCHANGED <<fp, work_queue, api>>
    /\ WorkerUnchanged

\* fp.seek(start_pos)
Seek(i) ==
    /\ futures[i].wpc = "seek"
    /\ fp' = futures[i].byte_pos
    /\ futures' = [futures EXCEPT ![i].wpc = "read"]
    /\ UNCHANGED <<work_queue, fileblock, api>>
    /\ WorkerUnchanged

\* variant: the lock stays with the thread that took it
Released_held(lock) == lock

\* leaving "with fileblock": the lock is free
Released(lock) == 0

\* part = fp.read(part_size_bytes), and the lock is released
ReadPart(i) ==
    /\ futures[i].wpc = "read"
    /\ LET part == FileRead(file_to_upload, fp, part_size_bytes)
       IN  /\ fp' = fp + Len(part)
           /\ futures' = [futures EXCEPT ![i].part = part, ![i].wpc = "hash"]
    /\ fileblock' = Released(fileblock)
    /\ UNCHANGED <<work_queue, api>>
    /\ WorkerUnchanged

\* variant: the end of the range is exclusive
RangeHeader_exclusive(start_pos, part, size) ==
    <<start_pos, start_pos + Len(part), size>>

\* end_pos = start_pos + len(part) - 1
\* range_header = f"bytes {start_pos}-{end_pos}/{file_size_bytes}",
\* as its three numbers
RangeHeader(start_pos, part, size) ==
    <<start_pos, start_pos + Len(part) - 1, size>>

\* range_header = ...; checksum = calculate_tree_hash(part, part_size_bytes)
HashPart(i) ==
    /\ futures[i].wpc = "hash"
    /\ futures' = [futures EXCEPT
                     ![i].range_header = RangeHeader(futures[i].byte_pos,
                                            futures[i].part, file_size_bytes),
                     ![i].checksum = calculate_tree_hash(futures[i].part,
                                                         part_size_bytes),
                     ![i].wpc = "upload"]
    /\ UNCHANGED <<fp, work_queue, fileblock, api>>
    /\ WorkerUnchanged

\* the checksum of an upload_multipart_part response: the tree hash of the
\* body as the store received it, intact or corrupted
ResponseChecksums(part, part_size) ==
    {calculate_tree_hash(part, part_size),
     calculate_tree_hash(StaleBytes(part), part_size)}

\* variant: the response is not compared
ResponseAccepted_always(checksum, response) == TRUE

\* "if checksum != response['checksum']: raise", negated
ResponseAccepted(checksum, response) == checksum = response

\* variant: no retry
AttemptsExhausted_once(failed) == failed >= 1

\* "for _ in range(MAX_UPLOAD_ATTEMPTS)" has run out after `failed` failures
AttemptsExhausted(failed) == failed >= MAX_UPLOAD_ATTEMPTS

\* variant: the raising block follows the loop instead of being its else
LoopElse_always(broke) == TRUE

\* the else clause of the for loop runs unless the loop was left by break
LoopElse(broke) == ~broke

\* "if error is not None: raise error / else: raise RuntimeError()"
RaisedError(error) == IF error # NoExc THEN error ELSE "RuntimeError"

\* an attempt that failed with exception e: retry, or raise the last error
FailedAttempt(i, e) ==
    IF AttemptsExhausted(futures[i].attempt + 1) /\ LoopElse(FALSE)
    THEN futures' = [futures EXCEPT
                       ![i].attempt = @ + 1, ![i].error = e,
                       ![i].retried = TRUE, ![i].state = "FINISHED",
                       ![i].exception = RaisedError(e), ![i].wpc = "raised"]
    ELSE futures' = [futures EXCEPT
                       ![i].attempt = @ + 1, ![i].error = e,
                       ![i].retried = TRUE]

\* one iteration of the retry loop whose upload_multipart_part call returns;
\* on success the checksum is returned and the frame's locals are gone
UploadReturns(i) ==
    /\ futures[i].wpc = "upload"
    /\ \E response \in ResponseChecksums(futures[i].part, part_size_bytes) :
        IF ResponseAccepted(futures[i].checksum, response)
        THEN IF LoopElse(TRUE)
             THEN futures' = [futures EXCEPT
                           ![i].state = "FINISHED",
                           ![i].exception = RaisedError(futures[i].error),
                           ![i].wpc = "raised"]
             ELSE futures' = [futures EXCEPT
                           ![i].state = "FINISHED",
                           ![i].result = futures[i].checksum,
                           ![i].response = response,
                           ![i].range_header = None,
                           ![i].part = None, ![i].checksum = None,
                           ![i].attempt = 0, ![i].error = NoExc,
                           ![i].wpc = "returned"]
        ELSE FailedAttempt(i, "ChecksumMismatch")
    /\ UNCHANGED <<fp, work_queue, fileblock, api>>
    /\ WorkerUnchanged

\* one iteration of the retry loop whose upload_multipart_part call raises
UploadRaises(i) ==
    /\ futures[i].wpc = "upload"
    /\ FailedAttempt(i, "Transport")
    /\ UNCHANGED <<fp, work_queue, fileblock, api>>
    /\ WorkerUnchanged

Next ==
    \/ InitiateMultipartUpload
    \/ FetchParts
    \/ VerifyPart
    \/ VerifyDone
    \/ Spawn
    \/ Submit
    \/ WaitReturns
    \/ CancelFuture
    \/ ReportAbort
    \/ CollectResult
    \/ CollectDone
    \/ ExecutorExit
    \/ ComputeTotalTreeHash
    \/ CompleteMultipartUpload
    \/ \E i \in DOMAIN futures : StartWork(i)
    \/ \E i \in DOMAIN futures : AcquireLock(i)
    \/ \E i \in DOMAIN futures : Seek(i)
    \/ \E i \in DOMAIN futures : ReadPart(i)
    \/ \E i \in DOMAIN futures : HashPart(i)
    \/ \E i \in DOMAIN futures : UploadReturns(i)
    \/ \E i \in DOMAIN futures : UploadRaises(i)

Spec == Init /\ [][Next]_vars

\* the runs of Spec of at most MaxFairParts parts of at most
\* MaxFairPartSizeMb MiB
FairInit ==
    /\ Init
    /\ num_parts <= MaxFairParts
    /\ part_size_mb <= MaxFairPartSizeMb

\* those runs under a scheduler that does not leave every thread that can
\* take a step waiting for ever, with a store whose calls return or raise
FairSpec == FairInit /\ [][Next]_vars /\ WF_vars(Next)

\* ------------------------------------------ sessions of another part size
\* the file a resumed session was created for: the local file, or a longer
\* one of which the local file is the beginning
SessionFiles(file) == {file, file \o [k \in 1..MiB |-> 90]}

\* as Init, but a session that is resumed may have been created with a part
\* size other than the one this run is given, or for a longer file
ResumeInit ==
    /\ \E size \in (MaxFileSize - FileSizeSpread)..MaxFileSize :
            file_to_upload = FileBytes(size)
    /\ \E mb \in PartSizesMb :
            part_size_mb = mb /\ part_size_bytes = mb * MiB
    /\ file_size = Len(file_to_upload)
    /\ new_part_size = 0
    /\ job_list = <<>>
    /\ list_of_checksums = <<>>
    /\ closed = FALSE
    /\ NoDownload
    /\ num_threads \in 1..MaxThreads
    /\ \/ /\ upload_id = NoUploadId
          /\ PartSizeInBytes = 0
          /\ remote_parts = <<>>
       \/ /\ upload_id = "upload-1"
          /\ \E mb \in PartSizesMb : PartSizeInBytes = mb * MiB
          /\ \E session_file \in SessionFiles(file_to_upload) :
                remote_parts \in RemoteLists(session_file, PartSizeInBytes)
    /\ fp = 0
    /\ pc = "start"
    /\ part_list = PlannedPartList(Len(file_to_upload), part_size_bytes)
    /\ parts = <<>>
    /\ verify_i = 1
    /\ to_submit = <<>>
    /\ futures = <<>>
    /\ work_queue = <<>>
    /\ fileblock = 0
    /\ done = {}
    /\ not_done = {}
    /\ loop_rest = {}
    /\ raising = NoExc
    /\ total_tree_hash = None
    /\ response_checksum = None
    /\ api = [n \in ApiNames |-> 0]
    /\ echoed = {}

ResumeSpec == ResumeInit /\ [][Next]_vars

\* ------------------------------------------------------- upload_archive
\* upload_archive up to the session call of multipart_upload: the sizes are
\* numbers, the bytes of the file are not modelled
RECURSIVE Log2IsInteger(_)
\* variant: no test of the power of two
Log2IsInteger_any(n) == TRUE

\* math.log2(n).is_integer(), for n >= 1
Log2IsInteger(n) == n = 1 \/ (n > 1 /\ n % 2 = 0 /\ Log2IsInteger(n \div 2))

\* math.ceil(a / b)
Ceil(a, b) == (a + b - 1) \div b

\* variant: files of exactly the threshold go in one request
BelowThreshold_inclusive(size) == size <= SINGLE_UPLOAD_THRESHOLD_BYTES

\* file_size_bytes < SINGLE_UPLOAD_THRESHOLD_BYTES
BelowThreshold(size) == size < SINGLE_UPLOAD_THRESHOLD_BYTES

\* math.ceil(file_size_bytes / (part_size_mb * 1024 * 1024)) > MAX_NUMBER_OF_PARTS
TooManyParts(size, mb) == Ceil(size, mb * MiB) > MAX_NUMBER_OF_PARTS

\* new_part_size < target_part_size, where
\* target_part_size = file_size_bytes / (10000 * 1024 * 1024)
BelowTarget(new_size, size) == new_size * (10000 * MiB) < size

\* variant: a part size of MAX_PART_SIZE_MB is refused
ExceedsMaxPartSize_inclusive(new_size) == new_size >= MAX_PART_SIZE_MB

\* if new_part_size > MAX_PART_SIZE_MB
ExceedsMaxPartSize(new_size) == new_size > MAX_PART_SIZE_MB

RECURSIVE GrowPartSize(_, _)
\* variant: the loop stops one doubling early
GrowPartSize_short(new_size, size) ==
    IF BelowTarget(2 * new_size, size)
    THEN IF ExceedsMaxPartSize(2 * new_size)
         THEN [raised |-> TRUE, value |-> 2 * new_size]
         ELSE GrowPartSize(2 * new_size, size)
    ELSE [raised |-> FALSE, value |-> new_size]

\* "while new_part_size < target_part_size": double, raise when the doubled
\* size exceeds MAX_PART_SIZE_MB
GrowPartSize(new_size, size) ==
    IF BelowTarget(new_size, size)
    THEN IF ExceedsMaxPartSize(2 * new_size)
         THEN [raised |-> TRUE, value |-> 2 * new_size]
         ELSE GrowPartSize(2 * new_size, size)
    ELSE [raised |-> FALSE, value |-> new_size]

RECURSIVE PowersOfTwo(_, _)
PowersOfTwo(from, to) ==
    IF from > to THEN {} ELSE {from} \cup PowersOfTwo(2 * from, to)

\* the part sizes asked for
PartSizeArgs ==
    (MIN_PART_SIZE_MB - PartSizeMargin)..(MAX_PART_SIZE_MB + PartSizeMargin)

\* the file sizes: around 0, around the threshold of the single request,
\* and around MAX_NUMBER_OF_PARTS parts of each power of two of MiB up to
\* twice MAX_PART_SIZE_MB
FileSizes ==
    LET marks == {0, SINGLE_UPLOAD_THRESHOLD_BYTES}
                    \cup {mb * MAX_NUMBER_OF_PARTS * MiB :
                            mb \in PowersOfTwo(1, 2 * MAX_PART_SIZE_MB)}
    IN  {m + d : m \in marks, d \in (0 - SizeSlack)..SizeSlack} \ {-n : n \in 1..SizeSlack}

ArchiveInit ==
    /\ file_size \in FileSizes
    /\ part_size_mb \in PartSizeArgs
    /\ upload_id \in {NoUploadId, "upload-1"}
    /\ PartSizeInBytes = IF upload_id = NoUploadId THEN 0 ELSE MIN_PART_SIZE_MB * MiB
    /\ new_part_size = 0
    /\ job_list = <<>>
    /\ list_of_checksums = <<>>
    /\ closed = FALSE
    /\ NoDownload
    /\ file_to_upload = <<>>
    /\ part_size_bytes = 0
    /\ num_threads = 1
    /\ remote_parts = <<>>
    /\ fp = 0
    /\ pc = "upload_archive"
    /\ part_list = <<>>
    /\ parts = <<>>
    /\ verify_i = 1
    /\ to_submit = <<>>
    /\ futures = <<>>
    /\ work_queue = <<>>
    /\ fileblock = 0
    /\ done = {}
    /\ not_done = {}
    /\ loop_rest = {}
    /\ raising = NoExc
    /\ total_tree_hash = None
    /\ response_checksum = None
    /\ api = [n \in ApiNames |-> 0]
    /\ echoed = {}

ArchiveUnchanged ==
    UNCHANGED <<file_to_upload, num_threads, remote_parts, upload_id,
                part_list, parts, verify_i, to_submit, futures, work_queue,
                fileblock, done, not_done, loop_rest, total_tree_hash,
                response_checksum, file_size, PartSizeInBytes, job_list,
                list_of_checksums, job_output_vars, download_vars>>

\* variant: the handle is left where the measuring put it
Rewind_none(pos) == pos

\* file_to_upload.seek(0, 0), "return file pointer to start of file"
Rewind(pos) == 0

\* the two tests of part_size_mb, which precede the opening of the file;
\* then the file is opened and measured: seek(0, 2) puts the cursor at the
\* end and returns the size, seek(0, 0) puts it back
CheckPartSize ==
    /\ pc = "upload_archive"
    /\ IF part_size_mb < MIN_PART_SIZE_MB \/ part_size_mb > MAX_PART_SIZE_MB
       THEN /\ raising' = "ClickException: part-size must be between"
            /\ pc' = "raised"
            /\ fp' = fp
       ELSE IF ~Log2IsInteger(part_size_mb)
       THEN /\ raising' = "ClickException: part-size must be a power of 2"
            /\ pc' = "raised"
            /\ fp' = fp
       ELSE /\ raising' = raising
            /\ pc' = "opened"
            /\ fp' = Rewind(file_size)
    /\ UNCHANGED <<part_size_bytes, part_size_mb, new_part_size, api, echoed,
                   closed>>
    /\ ArchiveUnchanged

\* the file is smaller than the threshold: glacier.upload_archive(...,
\* body=file_to_upload) sends what the handle yields from its cursor on
SingleUpload ==
    /\ pc = "opened"
    /\ BelowThreshold(file_size)
    /\ api' = Call("upload_archive")
    /\ fp' = file_size
    /\ echoed' = echoed \cup {"Uploading in one request...", "Uploaded."}
    /\ pc' = "close"
    /\ UNCHANGED <<part_size_bytes, part_size_mb, new_part_size, raising,
                   closed>>
    /\ ArchiveUnchanged

\* variant: the size asked for is kept after the confirmation
ConfirmedPartSize_requested(requested, recomputed) == requested

\* part_size_mb = new_part_size, after click.confirm returned
ConfirmedPartSize(requested, recomputed) == recomputed

\* too many parts of the size asked for: a larger size is looked for and
\* proposed with click.confirm(..., abort=True)
RecomputePartSize ==
    /\ pc = "opened"
    /\ ~BelowThreshold(file_size)
    /\ TooManyParts(file_size, part_size_mb)
    /\ LET grown == GrowPartSize(MIN_PART_SIZE_MB, file_size)
       IN  IF grown.raised
           THEN /\ raising' = "ClickException: Archive/upload size too large"
                /\ pc' = "close"
                /\ UNCHANGED <<part_size_mb, new_part_size>>
           ELSE /\ new_part_size' = grown.value
                /\ \E confirmed \in BOOLEAN :
                    IF confirmed
                    THEN /\ part_size_mb' =
                                ConfirmedPartSize(part_size_mb, grown.value)
                         /\ pc' = "call"
                         /\ raising' = raising
                    ELSE /\ part_size_mb' = part_size_mb
                         /\ pc' = "close"
                         /\ raising' = "Abort"
    /\ UNCHANGED <<part_size_bytes, api, echoed, fp, closed>>
    /\ ArchiveUnchanged

\* multipart_upload(glacier, upload_id, ..., part_size_mb * 1024 * 1024, ...)
CallMultipartUpload ==
    /\ \/ pc = "call"
       \/ /\ pc = "opened"
          /\ ~BelowThreshold(file_size)
          /\ ~TooManyParts(file_size, part_size_mb)
    /\ part_size_bytes' = part_size_mb * MiB
    /\ pc' = "start"
    /\ UNCHANGED <<part_size_mb, new_part_size, raising, api, echoed, fp,
                   closed>>
    /\ ArchiveUnchanged

\* finally: file_to_upload.close(); then "Done." unless an exception passes
CloseFile ==
    /\ pc = "close"
    /\ closed' = TRUE
    /\ pc' = IF raising # NoExc THEN "raised" ELSE "done"
    /\ echoed' = IF raising # NoExc THEN echoed ELSE echoed \cup {"Done."}
    /\ UNCHANGED <<part_size_bytes, part_size_mb, new_part_size, raising, api,
                   fp>>
    /\ ArchiveUnchanged

\* upload_archive, followed into multipart_upload as far as the call that
\* creates the session or lists its parts
ArchiveNext ==
    \/ CheckPartSize
    \/ SingleUpload
    \/ RecomputePartSize
    \/ CallMultipartUpload
    \/ CloseFile
    \/ InitiateMultipartUpload
    \/ FetchParts

ArchiveSpec == ArchiveInit /\ [][ArchiveNext]_vars

\* ------------------------------------------------ the hashes on their own
\* the two hash functions at the places of a run that call them, on byte
\* strings and digest lists of every shape
\* a worker of a new session of one part has read its bytes and is to hash
\* them
PartHashInit ==
    /\ \E n \in 1..MaxHashBytes : file_to_upload \in [1..n -> 0..1]
    /\ \E mb \in PowersOfTwo(MIN_PART_SIZE_MB, MaxHashBytes) :
            /\ mb * MiB >= Len(file_to_upload)
            /\ part_size_mb = mb
            /\ part_size_bytes = mb * MiB
    /\ PartSizeInBytes = part_size_bytes
    /\ remote_parts = <<>>
    /\ parts = <<>>
    /\ verify_i = 1
    /\ part_list = PlannedPartList(Len(file_to_upload), part_size_bytes)
    /\ futures = <<[NewFuture(0) EXCEPT !.state = "RUNNING", !.wpc = "hash",
                                        !.part = file_to_upload]>>
    /\ fp = Len(file_to_upload)
    /\ pc = "submit"
    /\ api = [n \in ApiNames |->
                IF n = "initiate_multipart_upload" THEN 1 ELSE 0]
    /\ echoed = {}

\* every part of a resumed session has been verified, the pool had nothing
\* to do and the total tree hash is to be computed; part k of the file is
\* MiB bytes of one value
TotalHashInit ==
    /\ \E n \in 1..MaxDigests : \E value \in [1..n -> 0..2] :
            file_to_upload = [i \in 1..(n * MiB) |-> value[((i - 1) \div MiB) + 1]]
    /\ part_size_mb = 1
    /\ part_size_bytes = MiB
    /\ PartSizeInBytes = MiB
    /\ remote_parts =
            [k \in 1..(Len(file_to_upload) \div MiB) |->
                PartData(file_to_upload, (k - 1) * MiB, MiB, "good")]
    /\ parts = remote_parts
    /\ verify_i = Len(parts) + 1
    /\ part_list =
            [k \in 1..Len(parts) |->
                <<(k - 1) * MiB, LocalDigest(file_to_upload, (k - 1) * MiB, MiB)>>]
    /\ futures = <<>>
    /\ fp = Len(file_to_upload)
    /\ pc = "hash"
    /\ api = [n \in ApiNames |-> IF n = "list_parts" THEN 1 ELSE 0]
    /\ echoed = {"Resuming upload with id"}

HashInit ==
    /\ PartHashInit \/ TotalHashInit
    /\ file_size = Len(file_to_upload)
    /\ new_part_size = 0
    /\ job_list = <<>>
    /\ list_of_checksums = <<>>
    /\ closed = FALSE
    /\ NoDownload
    /\ num_threads = 1
    /\ upload_id = "upload-1"
    /\ to_submit = <<>>
    /\ work_queue = <<>>
    /\ fileblock = 0
    /\ done = {}
    /\ not_done = {}
    /\ loop_rest = {}
    /\ raising = NoExc
    /\ total_tree_hash = None
    /\ response_checksum = None

HashNext ==
    \/ \E i \in DOMAIN futures : HashPart(i)
    \/ ComputeTotalTreeHash

HashSpec == HashInit /\ [][HashNext]_vars

\* ------------------------------------------------ store calls that raise
\* what a call of the store may raise: a failure of the network or of the
\* service, or an unknown vault or session
StoreErrors == {"Transport", "ResourceNotFoundException"}

\* the exception of a session-level call; it names the operation
CallError(e, name) == e \o ": " \o name

\* variant: a session that is not found is passed over in silence
ListingError_silent(e) ==
    IF e = "ResourceNotFoundException"
    THEN NoExc
    ELSE CallError(e, "list_parts")

\* except glacier.exceptions.ResourceNotFoundException as e:
\*     raise click.ClickException(e.response["Error"]["Message"])
\* any other exception passes
ListingError(e) ==
    IF e = "ResourceNotFoundException"
    THEN "ClickException: ResourceNotFoundException"
    ELSE CallError(e, "list_parts")

\* glacier.initiate_multipart_upload raises: no try surrounds it
InitiateRaises ==
    /\ pc = "start"
    /\ upload_id = NoUploadId
    /\ api' = Call("initiate_multipart_upload")
    /\ \E e \in StoreErrors :
            raising' = CallError(e, "initiate_multipart_upload")
    /\ pc' = "raised"
    /\ UNCHANGED <<inputs, PartSizeInBytes, fp, upload_id, part_list, parts,
                   verify_i, to_submit, futures, work_queue, fileblock, done,
                   not_done, loop_rest, total_tree_hash, response_checksum,
                   echoed>>

\* the listing of the parts raises
FetchPartsRaises ==
    /\ pc = "start"
    /\ Resuming(upload_id)
    /\ echoed' = echoed \cup {"Resuming upload with id"}
    /\ api' = Call("list_parts")
    /\ \E e \in StoreErrors : raising' = ListingError(e)
    /\ pc' = "raised"
    /\ UNCHANGED <<inputs, PartSizeInBytes, fp, upload_id, part_list, parts,
                   verify_i, to_submit, futures, work_queue, fileblock, done,
                   not_done, loop_rest, total_tree_hash, response_checksum>>

\* glacier.complete_multipart_upload raises: no try surrounds it
CompleteRaises ==
    /\ pc = "complete"
    /\ api' = Call("complete_multipart_upload")
    /\ \E e \in StoreErrors :
            raising' = CallError(e, "complete_multipart_upload")
    /\ pc' = "raised"
    /\ UNCHANGED <<inputs, PartSizeInBytes, fp, upload_id, part_list, parts,
                   verify_i, to_submit, futures, work_queue, fileblock, done,
                   not_done, loop_rest, total_tree_hash, response_checksum,
                   echoed>>

\* glacier.upload_archive raises: the finally closes the file
SingleUploadRaises ==
    /\ pc = "opened"
    /\ BelowThreshold(file_size)
    /\ api' = Call("upload_archive")
    /\ echoed' = echoed \cup {"Uploading in one request..."}
    /\ \E e \in StoreErrors : raising' = CallError(e, "upload_archive")
    /\ fp' \in {fp, file_size}
    /\ pc' = "close"
    /\ UNCHANGED <<part_size_bytes, part_size_mb, new_part_size, closed>>
    /\ ArchiveUnchanged

\* a run of multipart_upload, or a run of upload_archive on a file below
\* the threshold of the single request
FaultInit == Init \/ (ArchiveInit /\ BelowThreshold(file_size))

\* the runs of Spec and the single request, with store calls that raise
FaultNext ==
    \/ InitiateMultipartUpload
    \/ InitiateRaises
    \/ FetchParts
    \/ FetchPartsRaises
    \/ VerifyPart
    \/ VerifyDone
    \/ Spawn
    \/ Submit
    \/ WaitReturns
    \/ CancelFuture
    \/ ReportAbort
    \/ CollectResult
    \/ CollectDone
    \/ ExecutorExit
    \/ ComputeTotalTreeHash
    \/ CompleteMultipartUpload
    \/ CompleteRaises
    \/ \E i \in DOMAIN futures : StartWork(i)
    \/ \E i \in DOMAIN futures : AcquireLock(i)
    \/ \E i \in DOMAIN futures : Seek(i)
    \/ \E i \in DOMAIN futures : ReadPart(i)
    \/ \E i \in DOMAIN futures : HashPart(i)
    \/ \E i \in DOMAIN futures : UploadReturns(i)
    \/ \E i \in DOMAIN futures : UploadRaises(i)
    \/ CheckPartSize
    \/ SingleUpload
    \/ SingleUploadRaises
    \/ CloseFile

FaultSpec == FaultInit /\ [][FaultNext]_vars

\* ------------------------------------- multipart_upload in upload_archive
\* multipart_upload returns, or what it raises passes: the finally of
\* upload_archive is entered
MultipartReturns ==
    /\ pc \in {"done", "raised"}
    /\ ~closed
    /\ pc' = "close"
    /\ UNCHANGED <<inputs, PartSizeInBytes, fp, upload_id, part_list, parts,
                   verify_i, to_submit, futures, work_queue, fileblock, done,
                   not_done, loop_rest, raising, total_tree_hash,
                   response_checksum, api, echoed>>

\* a run of multipart_upload as upload_archive calls it, the file open and
\* measured, up to the closing of the file
UploadNext ==
    \/ InitiateMultipartUpload
    \/ FetchParts
    \/ VerifyPart
    \/ VerifyDone
    \/ Spawn
    \/ Submit
    \/ WaitReturns
    \/ CancelFuture
    \/ ReportAbort
    \/ CollectResult
    \/ CollectDone
    \/ ExecutorExit
    \/ ComputeTotalTreeHash
    \/ CompleteMultipartUpload
    \/ \E i \in DOMAIN futures : StartWork(i)
    \/ \E i \in DOMAIN futures : AcquireLock(i)
    \/ \E i \in DOMAIN futures : Seek(i)
    \/ \E i \in DOMAIN futures : ReadPart(i)
    \/ \E i \in DOMAIN futures : HashPart(i)
    \/ \E i \in DOMAIN futures : UploadReturns(i)
    \/ \E i \in DOMAIN futures : UploadRaises(i)
    \/ MultipartReturns
    \/ CloseFile

UploadSpec == Init /\ [][UploadNext]_vars

\* ------------------------------------------------- main() of src/main.py
\* the first revision of the upload, from the creation or the listing of
\* the session on: job_list holds the byte positions to upload and
\* list_of_checksums one entry per part number.  Its upload_part takes the
\* lock, seeks and reads as the later one does, and sends the part once.
\* The closing of the file is not followed here.
LegacyFixed == <<file_to_upload, num_threads, remote_parts, part_list,
                 file_size, part_size_mb, new_part_size, closed,
                 job_output_vars, download_vars>>

\* [None, ..., None], one per "list_of_checksums.append(None)"
NoChecksums(n) == [k \in 1..n |-> None]

\* list.remove(x): the first occurrence is taken out
ListRemove(list, x) ==
    LET first == CHOOSE k \in 1..Len(list) :
                    list[k] = x /\ \A j \in 1..(k - 1) : list[j] # x
    IN  SubSeq(list, 1, first - 1) \o SubSeq(list, first + 1, Len(list))

LegacyInit ==
    /\ \E size \in (MaxFileSize - FileSizeSpread)..MaxFileSize :
            file_to_upload = FileBytes(size)
    /\ \E mb \in PartSizesMb :
            part_size_mb = mb /\ part_size_bytes = mb * MiB
    /\ file_size = Len(file_to_upload)
    /\ new_part_size = 0
    /\ num_threads \in 1..MaxThreads
    /\ \/ /\ upload_id = NoUploadId
          /\ PartSizeInBytes = 0
          /\ remote_parts = <<>>
       \/ /\ upload_id = "upload-1"
          /\ \E mb \in PartSizesMb : PartSizeInBytes = mb * MiB
          /\ remote_parts \in RemoteLists(file_to_upload, PartSizeInBytes)
    /\ job_list = <<>>
    /\ list_of_checksums = <<>>
    /\ closed = FALSE
    /\ NoDownload
    /\ fp = Len(file_to_upload)
    /\ pc = "start"
    /\ part_list = <<>>
    /\ parts = <<>>
    /\ verify_i = 1
    /\ to_submit = <<>>
    /\ futures = <<>>
    /\ work_queue = <<>>
    /\ fileblock = 0
    /\ done = {}
    /\ not_done = {}
    /\ loop_rest = {}
    /\ raising = NoExc
    /\ total_tree_hash = None
    /\ response_checksum = None
    /\ api = [n \in ApiNames |-> 0]
    /\ echoed = {}

\* args['upload_id'] is None: the session is created and every part planned
LegacyInitiate ==
    /\ pc = "start"
    /\ upload_id = NoUploadId
    /\ api' = Call("initiate_multipart_upload")
    /\ PartSizeInBytes' = part_size_bytes
    /\ upload_id' = "upload-1"
    /\ job_list' = Range(0, file_size_bytes, part_size_bytes)
    /\ list_of_checksums' = NoChecksums(Len(job_list'))
    /\ pc' = "spawn"
    /\ UNCHANGED <<LegacyFixed, part_size_bytes, fp, parts, verify_i,
                   to_submit, futures, work_queue, fileblock, done, not_done,
                   loop_rest, raising, total_tree_hash, response_checksum,
                   echoed>>

\* resuming: the parts are listed, part_size is taken from the response and
\* every part planned with it
LegacyListParts ==
    /\ pc = "start"
    /\ upload_id # NoUploadId
    /\ echoed' = echoed \cup {"Resuming upload..."}
    /\ api' = Call("list_parts")
    /\ parts' = remote_parts
    /\ part_size_bytes' = PartSizeInBytes
    /\ job_list' = Range(0, file_size_bytes, PartSizeInBytes)
    /\ list_of_checksums' = NoChecksums(Len(job_list'))
    /\ verify_i' = 1
    /\ pc' = "verify"
    /\ UNCHANGED <<LegacyFixed, PartSizeInBytes, fp, upload_id, to_submit,
                   futures, work_queue, fileblock, done, not_done, loop_rest,
                   raising, total_tree_hash, response_checksum>>

\* one iteration of "for part_data in parts": a part whose checksum matches
\* is removed from job_list
LegacyVerifyPart ==
    /\ pc = "verify"
    /\ verify_i <= Len(parts)
    /\ LET part_data == parts[verify_i]
           byte_start == part_data.RangeInBytes[1]
           part == FileRead(file_to_upload, byte_start, part_size_bytes)
           checksum == calculate_tree_hash(part, part_size_bytes)
       IN  /\ fp' = byte_start + Len(part)
           /\ IF checksum = IndexError
              THEN /\ raising' = "IndexError"
                   /\ pc' = "raised"
                   /\ UNCHANGED <<job_list, verify_i>>
              ELSE IF ~ChecksumMatches(checksum, part_data)
              THEN /\ verify_i' = verify_i + 1
                   /\ UNCHANGED <<job_list, raising, pc>>
              ELSE IF \E k \in 1..Len(job_list) : job_list[k] = byte_start
              THEN /\ job_list' = ListRemove(job_list, byte_start)
                   /\ verify_i' = verify_i + 1
                   /\ UNCHANGED <<raising, pc>>
              ELSE /\ raising' = "ValueError"
                   /\ pc' = "raised"
                   /\ UNCHANGED <<job_list, verify_i>>
    /\ UNCHANGED <<LegacyFixed, part_size_bytes, PartSizeInBytes, upload_id,
                   parts, list_of_checksums, to_submit, futures, work_queue,
                   fileblock, done, not_done, loop_rest, total_tree_hash,
                   response_checksum, api, echoed>>

\* the executor is created; the comprehension over job_list starts
LegacySpawn ==
    /\ pc = "spawn"
    /\ to_submit' = job_list
    /\ pc' = "submit"
    /\ UNCHANGED <<inputs, PartSizeInBytes, fp, upload_id, part_list, parts,
                   verify_i, futures, work_queue, fileblock, done, not_done,
                   loop_rest, raising, total_tree_hash, response_checksum,
                   api, echoed>>

\* upload_part after the read: the part is sent once; what the call raises,
\* or the AssertionError of a checksum that differs, ends the future
LegacyUploadPart(i) ==
    /\ futures[i].wpc = "hash"
    /\ LET part == futures[i].part
           checksum == calculate_tree_hash(part, part_size_bytes)
       IN  \/ futures' = [futures EXCEPT
                            ![i].state = "FINISHED",
                            ![i].exception = "Transport",
                            ![i].part = None,
                            ![i].wpc = "raised"]
           \/ \E response \in ResponseChecksums(part, part_size_bytes) :
                IF checksum = response
                THEN futures' = [futures EXCEPT
                                   ![i].state = "FINISHED",
                                   ![i].result = checksum,
                                   ![i].part = None,
                                   ![i].wpc = "returned"]
                ELSE futures' = [futures EXCEPT
                                   ![i].state = "FINISHED",
                                   ![i].exception = "AssertionError",
                                   ![i].part = None,
                                   ![i].wpc = "raised"]
    /\ UNCHANGED <<fp, work_queue, fileblock, api>>
    /\ WorkerUnchanged

\* the exceptions and the upload id are printed, then sys.exit(1)
LegacyExit ==
    /\ pc = "cancel"
    /\ loop_rest = {}
    /\ echoed' = echoed \cup {"Upload not aborted. Upload id", "Exiting."}
                        \cup (IF \E i \in done : futures[i].exception # NoExc
                              THEN {"Exception occured"} ELSE {})
    /\ raising' = "SystemExit"
    /\ pc' = "shutdown"
    /\ UNCHANGED <<inputs, PartSizeInBytes, fp, upload_id, part_list, parts,
                   verify_i, to_submit, futures, work_queue, fileblock, done,
                   not_done, loop_rest, total_tree_hash, response_checksum,
                   api>>

\* one iteration of "for future in done":
\* list_of_checksums[job_index] = future.result()
LegacyCollectResult ==
    /\ pc = "collect"
    /\ \E i \in loop_rest :
        IF FutureRaises(futures[i])
        THEN /\ raising' = futures[i].exception
             /\ pc' = "shutdown"
             /\ UNCHANGED <<list_of_checksums, loop_rest>>
        ELSE /\ list_of_checksums' =
                    [list_of_checksums EXCEPT
                        ![(futures[i].byte_pos \div part_size_bytes) + 1] =
                            futures[i].result]
             /\ loop_rest' = loop_rest \ {i}
             /\ UNCHANGED <<raising, pc>>
    /\ UNCHANGED <<LegacyFixed, part_size_bytes, job_list, PartSizeInBytes,
                   fp, upload_id, parts, verify_i, to_submit, futures,
                   work_queue, fileblock, done, not_done, total_tree_hash,
                   response_checksum, api, echoed>>

\* if len(list_of_checksums) != num_parts
Incomplete(checksums, n) == Len(checksums) # n

\* the checksums of all the parts, from the file read in order
Recalculated(file, part_size) ==
    LET offs == Range(0, Len(file), part_size)
    IN  [k \in 1..Len(offs) |-> LocalDigest(file, offs[k], part_size)]

\* binascii.unhexlify(None) raises TypeError: every entry of a list of more
\* than one is given to it
UnhexlifyRaises(checksums) ==
    /\ Len(checksums) > 1
    /\ \E k \in 1..Len(checksums) : checksums[k] = None

\* the test of the list of checksums, the recalculation when it is found
\* incomplete, and calculate_total_tree_hash(list_of_checksums)
LegacyTotalTreeHash ==
    /\ pc = "hash"
    /\ LET recalculate == Incomplete(list_of_checksums, num_parts)
           checksums == IF recalculate
                        THEN Recalculated(file_to_upload, part_size_bytes)
                        ELSE list_of_checksums
       IN  /\ list_of_checksums' = checksums
           /\ fp' = IF recalculate THEN Len(file_to_upload) ELSE fp
           /\ echoed' = IF recalculate
                        THEN echoed \cup {"List of checksums incomplete."}
                        ELSE echoed
           /\ IF UnhexlifyRaises(checksums)
              THEN /\ raising' = "TypeError"
                   /\ pc' = "raised"
                   /\ UNCHANGED total_tree_hash
              ELSE /\ total_tree_hash' = calculate_total_tree_hash(checksums)
                   /\ pc' = "complete"
                   /\ UNCHANGED raising
    /\ UNCHANGED <<LegacyFixed, part_size_bytes, job_list, PartSizeInBytes,
                   upload_id, parts, verify_i, to_submit, futures, work_queue,
                   fileblock, done, not_done, loop_rest, response_checksum,
                   api>>

\* glacier.complete_multipart_upload(..., checksum=total_tree_hash); a
\* checksum that is None is refused before the request is sent
LegacyComplete ==
    /\ pc = "complete"
    /\ IF total_tree_hash = None
       THEN /\ raising' = "ParamValidationError"
            /\ pc' = "raised"
            /\ UNCHANGED <<api, response_checksum, echoed>>
       ELSE /\ api' = Call("complete_multipart_upload")
            /\ response_checksum' \in {total_tree_hash, ForeignChecksum}
            /\ echoed' = echoed \cup {"Upload successful.", "Done."}
            /\ pc' = "done"
            /\ UNCHANGED raising
    /\ UNCHANGED <<inputs, PartSizeInBytes, fp, upload_id, part_list, parts,
                   verify_i, to_submit, futures, work_queue, fileblock, done,
                   not_done, loop_rest, total_tree_hash>>

LegacyNext ==
    \/ LegacyInitiate
    \/ LegacyListParts
    \/ LegacyVerifyPart
    \/ VerifyDone
    \/ LegacySpawn
    \/ Submit
    \/ WaitReturns
    \/ CancelFuture
    \/ LegacyExit
    \/ LegacyCollectResult
    \/ CollectDone
    \/ ExecutorExit
    \/ LegacyTotalTreeHash
    \/ LegacyComplete
    \/ \E i \in DOMAIN futures : StartWork(i)
    \/ \E i \in DOMAIN futures : AcquireLock(i)
    \/ \E i \in DOMAIN futures : Seek(i)
    \/ \E i \in DOMAIN futures : ReadPart(i)
    \/ \E i \in DOMAIN futures : LegacyUploadPart(i)

LegacySpec == LegacyInit /\ [][LegacyNext]_vars

\* ============================================================ properties
PlannedOffsets == Range(0, file_size_bytes, part_size_bytes)

PlannedOffsetSet == {PlannedOffsets[k] : k \in 1..Len(PlannedOffsets)}

\* the tree hash of the file's own bytes of the part at byte_start
LocalPartDigest(byte_start) ==
    LocalDigest(file_to_upload, byte_start, part_size_bytes)

ReportedEntries == {remote_parts[k] : k \in 1..Len(remote_parts)}

ReportedOffsets == {e.RangeInBytes[1] : e \in ReportedEntries}

\* the reported parts whose digest is not that of the local bytes
Tampered ==
    {e.RangeInBytes[1] : e \in {x \in ReportedEntries :
        x.SHA256TreeHash # LocalPartDigest(x.RangeInBytes[1])}}

\* the offsets handed to the pool, or about to be
SubmittedOffsets ==
    {to_submit[k] : k \in 1..Len(to_submit)}
        \cup {futures[i].byte_pos : i \in DOMAIN futures}

Failed(f) == f.state = "FINISHED" /\ f.exception # NoExc

Uploaded(f) == f.state = "FINISHED" /\ f.exception = NoExc

Terminated == pc \in {"done", "raised"}

\* C1: once the listed parts are verified, a listed part whose digest equals
\* the tree hash of the local bytes at its offset is recorded with that digest
\* and never handed to the pool; a listed part whose digest differs and a part
\* that is not listed stay unconfirmed and are submitted; with exactly one
\* tampered digest exactly that listed part is submitted.
C1_ResumeClassification ==
    /\ pc = "spawn" =>
        \A off \in PlannedOffsetSet :
            IF off \in ReportedOffsets \ Tampered
            THEN DictGet(part_list, off) = LocalPartDigest(off)
            ELSE DictGet(part_list, off) = None
    /\ pc \notin {"start", "verify", "spawn"} =>
        /\ SubmittedOffsets = PlannedOffsetSet \ (ReportedOffsets \ Tampered)
        /\ \A off \in ReportedOffsets \ Tampered :
            DictGet(part_list, off) = LocalPartDigest(off)
        /\ \A i, j \in DOMAIN futures :
            futures[i].byte_pos = futures[j].byte_pos => i = j
        /\ Cardinality(Tampered) = 1 =>
            SubmittedOffsets \cap ReportedOffsets = Tampered

C1_Witness ==
    /\ pc = "done"
    /\ Len(remote_parts) = 3
    /\ Cardinality(Tampered) = 1
    /\ Len(futures) = 1
    /\ futures[1].byte_pos \in Tampered

\* C2: the completion request is issued only when every planned part has a
\* digest and no future has failed.
AllConfirmed ==
    /\ \A off \in PlannedOffsetSet :
        DictHas(part_list, off) /\ DictGet(part_list, off) # None
    /\ \A i \in DOMAIN futures : Uploaded(futures[i])

C2_CompletionNeedsAllParts ==
    (pc \in {"complete", "done"} \/ api["complete_multipart_upload"] > 0)
        => AllConfirmed

C2_Witness ==
    /\ pc = "done"
    /\ Len(futures) >= 2
    /\ api["complete_multipart_upload"] = 1

\* C3: part_list keeps the planned offsets in ascending order whatever the
\* order in which results are stored, so the list given to
\* calculate_total_tree_hash is the part digests by part index, and the total
\* tree hash sent is the hash of that list.
DigestsByIndex ==
    [k \in 1..Len(PlannedOffsets) |-> LocalPartDigest(PlannedOffsets[k])]

C3_RootDigestByIndex ==
    /\ DictKeys(part_list) = PlannedOffsets
    /\ \A k \in 1..Len(part_list) :
        part_list[k][2] \in {None, DigestsByIndex[k]}
    /\ pc \in {"hash", "complete", "done"} =>
        DictValues(part_list) = DigestsByIndex
    /\ pc \in {"complete", "done"} =>
        total_tree_hash = calculate_total_tree_hash(DigestsByIndex)

\* a later part's result is stored while an earlier part's is not yet
C3_Witness ==
    /\ pc = "collect"
    /\ Len(part_list) = 3
    /\ part_list[1][2] = None
    /\ part_list[3][2] # None

C5_RetryThenSuccess ==
    /\ \A i \in DOMAIN futures :
        LET f == futures[i]
        IN  /\ (f.state = "FINISHED" /\ f.retried) =>
                \/ Uploaded(f)
                \/ f.attempt = MAX_UPLOAD_ATTEMPTS
            /\ Uploaded(f) =>
                /\ f.result = LocalPartDigest(f.byte_pos)
                /\ f.wpc = "returned"
    /\ (Terminated /\ \A i \in DOMAIN futures : Uploaded(futures[i])) =>
        /\ pc = "done"
        /\ "Upload successful." \in echoed
        /\ api["complete_multipart_upload"] = 1
        /\ \A i \in DOMAIN futures :
            DictGet(part_list, futures[i].byte_pos) = futures[i].result

C5_Witness ==
    /\ pc = "done"
    /\ "Upload successful." \in echoed
    /\ Len(futures) >= 2
    /\ \E i \in DOMAIN futures : futures[i].retried /\ Uploaded(futures[i])

\* C6: once a part has exhausted its attempts the run never completes or
\* aborts the session, and it ends raising.
C6_FailureLeavesSessionResumable ==
    (\E i \in DOMAIN futures : Failed(futures[i])) =>
        /\ api["complete_multipart_upload"] = 0
        /\ api["abort_multipart_upload"] = 0
        /\ pc \notin {"hash", "complete", "done"}
        /\ Terminated => (pc = "raised" /\ raising # NoExc)

C6_Witness ==
    /\ pc = "raised"
    /\ \E i \in DOMAIN futures : Failed(futures[i])
    /\ \E i \in DOMAIN futures : Uploaded(futures[i])

\* C7: every run that ends because a part exhausted its attempts has printed
\* the upload id with the failure.
C7_FailureReportsUploadId ==
    (pc = "raised" /\ \E i \in DOMAIN futures : Failed(futures[i])) =>
        "Upload can still be resumed. Upload ID" \in echoed

\* C8: once a part has exhausted its attempts, no part that has not started
\* is started.
C8_NoStartAfterFailure ==
    [][(\E j \in DOMAIN futures : Failed(futures[j])) =>
        \A i \in DOMAIN futures :
            futures[i].state = "PENDING" => futures'[i].state # "RUNNING"]_vars

\* C9: when multipart_upload returns or raises, no worker is executing
\* upload_part, none holds or awaits the file lock, and no work is queued.
C9_DrainedOnReturn ==
    Terminated =>
        /\ \A i \in DOMAIN futures :
            futures[i].state \in {"FINISHED", "CANCELLED"}
        /\ fileblock = 0
        /\ work_queue = <<>>

C9_Witness ==
    /\ pc = "raised"
    /\ raising = "Abort"
    /\ \E i \in DOMAIN futures : futures[i].state = "CANCELLED"
    /\ \E i \in DOMAIN futures : Uploaded(futures[i])

\* C10: the run reports success only when the checksum of the completion
\* response equals the total tree hash computed locally.
C10_SuccessNeedsMatchingRoot ==
    (pc = "done" /\ "Upload successful." \in echoed) =>
        response_checksum = total_tree_hash

\* ------------------------------------------------ upload_archive claims
PartSizeError ==
    {"ClickException: part-size must be between",
     "ClickException: part-size must be a power of 2"}

SizeError == "ClickException: Archive/upload size too large"

NoStoreCall == \A n \in ApiNames : api[n] = 0

ValidPartSizes == PowersOfTwo(MIN_PART_SIZE_MB, MAX_PART_SIZE_MB)

InMultipartUpload == pc \in {"start", "spawn", "verify"}

\* C11: a part size that is not a power of two between 1 and 4096 MiB is
\* refused with a part-size error before the file is opened and before any
\* call of the store; a power of two between 1 and 4096 is never refused
\* with a part-size error.
C11_PartSizeValidated ==
    /\ part_size_mb \notin ValidPartSizes =>
        /\ pc \in {"upload_archive", "raised"}
        /\ pc = "raised" => raising \in PartSizeError
        /\ NoStoreCall
    /\ part_size_mb \in ValidPartSizes =>
        /\ raising \notin PartSizeError
        /\ pc # "raised" \/ raising \in {SizeError, "Abort"}
    /\ raising \in PartSizeError => NoStoreCall

C11_Witness ==
    /\ pc = "raised"
    /\ part_size_mb = 3
    /\ raising = "ClickException: part-size must be a power of 2"
    /\ upload_id # NoUploadId

\* C13: a part size proposed by upload_archive is the smallest power of two
\* of MiB with which the file has at most MAX_NUMBER_OF_PARTS parts, it is
\* the part size used once confirmed, and whenever multipart_upload is
\* entered the file has at most MAX_NUMBER_OF_PARTS parts of the part size
\* passed to it.
FewEnoughParts(size, mb) == Ceil(size, mb * MiB) <= MAX_NUMBER_OF_PARTS

SmallestFit(size, mb) ==
    /\ mb \in PowersOfTwo(1, 2 * MAX_PART_SIZE_MB)
    /\ FewEnoughParts(size, mb)
    /\ \A q \in PowersOfTwo(1, 2 * MAX_PART_SIZE_MB) :
        q < mb => ~FewEnoughParts(size, q)

C13_PartSizeRecomputed ==
    /\ new_part_size # 0 => SmallestFit(file_size, new_part_size)
    /\ pc = "call" => part_size_mb = new_part_size
    /\ (InMultipartUpload \/ api["initiate_multipart_upload"] > 0
            \/ api["list_parts"] > 0) =>
        /\ part_size_bytes = part_size_mb * MiB
        /\ new_part_size # 0 => part_size_mb = new_part_size
        /\ Ceil(file_size, part_size_bytes) <= MAX_NUMBER_OF_PARTS

C13_Witness ==
    /\ api["initiate_multipart_upload"] = 1
    /\ file_size = MAX_NUMBER_OF_PARTS * MiB + 1
    /\ new_part_size = 2
    /\ part_size_bytes = 2 * MiB

\* C14: upload_archive fails with the size error only for a file larger than
\* MAX_NUMBER_OF_PARTS parts of MAX_PART_SIZE_MB, and then before any call
\* of the store; such a file never reaches multipart_upload and ends with
\* the size error; a file of exactly that size is uploaded in parts of
\* MAX_PART_SIZE_MB.
LargestArchive == MAX_PART_SIZE_MB * MiB * MAX_NUMBER_OF_PARTS

C14_SizeLimit ==
    /\ raising = SizeError =>
        /\ file_size > LargestArchive
        /\ NoStoreCall
        /\ ~InMultipartUpload
    /\ file_size > LargestArchive =>
        /\ NoStoreCall
        /\ pc \in {"upload_archive", "opened", "close", "raised"}
        /\ pc \in {"close", "raised"} =>
            raising \in PartSizeError \cup {SizeError}
    /\ (file_size = LargestArchive /\ InMultipartUpload) =>
        part_size_bytes = MAX_PART_SIZE_MB * MiB

C14_Witness ==
    /\ pc = "raised"
    /\ raising = SizeError
    /\ file_size = LargestArchive + 1
    /\ part_size_mb = MAX_PART_SIZE_MB

\* C15: the single request is made only for a file smaller than the
\* threshold, and such a file never reaches multipart_upload: no session is
\* created, no parts are listed, nothing is completed, no part size is
\* looked for; a file of the threshold or more is never sent in one request.
C15_SingleRequestBelowThreshold ==
    /\ file_size < SINGLE_UPLOAD_THRESHOLD_BYTES =>
        /\ \A n \in ApiNames \ {"upload_archive"} : api[n] = 0
        /\ ~InMultipartUpload /\ pc # "call"
        /\ part_size_bytes = 0 /\ new_part_size = 0
        /\ pc = "done" => api["upload_archive"] = 1
    /\ file_size >= SINGLE_UPLOAD_THRESHOLD_BYTES =>
        api["upload_archive"] = 0
    /\ api["upload_archive"] <= 1

C15_Witness ==
    /\ pc = "done"
    /\ api["upload_archive"] = 1
    /\ file_size = SINGLE_UPLOAD_THRESHOLD_BYTES - 1
    /\ "Done." \in echoed

\* ------------------------------------------------ pool and file claims
QueuedIds == {work_queue[k] : k \in 1..Len(work_queue)}

\* the bytes of the file from byte_start to the end of its part
SourceBytes(byte_start) ==
    LET stop == Min(byte_start + part_size_bytes, file_size_bytes)
    IN  [k \in 1..(stop - byte_start) |-> file_to_upload[byte_start + k]]

InCriticalSection == {i \in DOMAIN futures : futures[i].wpc \in {"seek", "read"}}

\* C12: the planned parts are ceil(size / part size) ranges, the k-th from
\* (k - 1) * part size to the smaller of its start plus the part size and
\* the file size: ascending, each ending where the next starts, the first
\* at 0 and the last at the file size; a worker's buffer has the length of
\* its range.
PartStart(k) == part_list[k][1]

PartStop(k) == Min(PartStart(k) + part_size_bytes, file_size_bytes)

C12_PartsPartitionFile ==
    /\ Len(part_list) = Ceil(file_size_bytes, part_size_bytes)
    /\ \A k \in 1..Len(part_list) :
        /\ PartStart(k) = (k - 1) * part_size_bytes
        /\ PartStart(k) < PartStop(k)
        /\ k < Len(part_list) =>
            /\ PartStart(k) < PartStart(k + 1)
            /\ PartStop(k) = PartStart(k + 1)
    /\ PartStart(1) = 0
    /\ PartStop(Len(part_list)) = file_size_bytes
    /\ \A i \in DOMAIN futures :
        /\ \E k \in 1..Len(part_list) : PartStart(k) = futures[i].byte_pos
        /\ futures[i].wpc \in {"hash", "upload"} =>
            \E k \in 1..Len(part_list) :
                /\ PartStart(k) = futures[i].byte_pos
                /\ Len(futures[i].part) = PartStop(k) - PartStart(k)

\* the last part is shorter than the part size and has been read
C12_Witness ==
    /\ Len(part_list) = 3
    /\ \E i \in DOMAIN futures :
        /\ futures[i].byte_pos = PartStart(3)
        /\ futures[i].wpc = "upload"
        /\ Len(futures[i].part) < part_size_bytes

\* C16: at most one worker is between taking the file lock and the end of
\* its read, and it holds the lock; a worker that has read holds the bytes
\* of its own part; a worker that hashes or uploads does not hold the lock.
C16_ReadUnderLock ==
    /\ Cardinality(InCriticalSection) <= 1
    /\ \A i \in DOMAIN futures :
        /\ i \in InCriticalSection <=> fileblock = i
        /\ futures[i].wpc \in {"hash", "upload"} =>
            /\ futures[i].part = SourceBytes(futures[i].byte_pos)
            /\ fileblock # i
    /\ fileblock # 0 => fileblock \in InCriticalSection

\* two workers are uploading at the same time, the one with the later part
\* already retrying
C16_Witness ==
    \E i, j \in DOMAIN futures :
        /\ i # j
        /\ futures[i].wpc = "upload"
        /\ futures[i].retried
        /\ futures[j].wpc = "upload"
        /\ futures[j].byte_pos < futures[i].byte_pos

\* C17: no two futures have the same part offset, an offset still to be
\* submitted has no future, every future is queued exactly while it is
\* pending and at most once, and once all are submitted there is one future
\* for each part that was unconfirmed.
C17_OneTaskPerPart ==
    /\ \A i, j \in DOMAIN futures :
        i # j => futures[i].byte_pos # futures[j].byte_pos
    /\ \A k, l \in 1..Len(to_submit) : k # l => to_submit[k] # to_submit[l]
    /\ \A k \in 1..Len(to_submit), i \in DOMAIN futures :
        to_submit[k] # futures[i].byte_pos
    /\ \A k, l \in 1..Len(work_queue) : k # l => work_queue[k] # work_queue[l]
    /\ \A i \in DOMAIN futures :
        futures[i].state = "PENDING" <=> i \in QueuedIds
    /\ (pc = "submit" /\ to_submit = <<>>) =>
        /\ Len(futures) = Len(UnconfirmedParts(part_list))
        /\ \A i \in DOMAIN futures :
            DictGet(part_list, futures[i].byte_pos) = None

C17_Witness ==
    /\ Len(futures) = 3
    /\ Cardinality(Running(futures)) = 2
    /\ \E i \in DOMAIN futures : futures[i].state = "PENDING"

\* C18: at most num_threads futures are executing upload_part, a future is
\* executing exactly while it is running, and a future that is queued has
\* not begun.
C18_PoolBounded ==
    /\ Cardinality(Running(futures)) <= num_threads
    /\ \A i \in DOMAIN futures :
        /\ futures[i].state = "RUNNING" <=>
                futures[i].wpc \in {"acquire", "seek", "read", "hash", "upload"}
        /\ futures[i].state \in {"PENDING", "CANCELLED"} =>
            /\ futures[i].wpc = "queued"
            /\ futures[i].part = None
            /\ futures[i].attempt = 0

C18_Witness ==
    /\ num_threads = 1
    /\ Len(futures) = 3
    /\ Cardinality(Running(futures)) = 1
    /\ \E i \in DOMAIN futures : Uploaded(futures[i])
    /\ \E i \in DOMAIN futures : futures[i].state = "PENDING"

\* ------------------------------------------------------- resume claims
\* C19: once the parts of a resumed session have been listed, the parts
\* planned start at multiples of the session's part size, verification
\* reads a part of the session's size at each listed offset, and each worker
\* reads a part of the session's size.
SessionPartStop(byte_start) ==
    Min(byte_start + PartSizeInBytes, file_size_bytes)

C19_ResumeUsesSessionPartSize ==
    api["list_parts"] > 0 =>
        /\ \A k \in 1..Len(part_list) : part_list[k][1] % PartSizeInBytes = 0
        /\ (pc = "verify" /\ verify_i > 1) =>
            fp = SessionPartStop(parts[verify_i - 1].RangeInBytes[1])
        /\ \A i \in DOMAIN futures :
            futures[i].wpc \in {"hash", "upload"} =>
                Len(futures[i].part) =
                    SessionPartStop(futures[i].byte_pos) - futures[i].byte_pos

\* C20: while the listed parts are verified and until the workers are
\* spawned, a resumed run has made one call of the store, the listing, and
\* has no future; a run without upload id lists nothing, verifies nothing,
\* creates one session, and submits every planned part.
OnlyCall(name) == \A n \in ApiNames : api[n] = IF n = name THEN 1 ELSE 0

C20_VerificationReadOnly ==
    /\ pc = "verify" => OnlyCall("list_parts")
    /\ api["list_parts"] > 0 =>
        /\ api["list_parts"] = 1
        /\ api["initiate_multipart_upload"] = 0
        /\ upload_id # NoUploadId
        /\ pc = "spawn" => OnlyCall("list_parts")
    /\ pc \in {"start", "verify", "spawn"} => futures = <<>> /\ to_submit = <<>>
    /\ api["initiate_multipart_upload"] > 0 =>
        /\ api["initiate_multipart_upload"] = 1
        /\ api["list_parts"] = 0
        /\ parts = <<>> /\ verify_i = 1
        /\ pc = "spawn" =>
            /\ OnlyCall("initiate_multipart_upload")
            /\ fp = 0
            /\ \A k \in 1..Len(part_list) : part_list[k][2] = None
        /\ pc \notin {"start", "verify", "spawn"} =>
            SubmittedOffsets = PlannedOffsetSet
    /\ pc # "start" =>
        api["initiate_multipart_upload"] + api["list_parts"] = 1

\* three listed parts have been verified, one of them found stale
C20_Witness ==
    /\ pc = "spawn"
    /\ Len(parts) = 3
    /\ Cardinality(Tampered) = 1
    /\ OnlyCall("list_parts")
    /\ part_list[1][2] # None

\* ------------------------------------------------- part state claims
\* a part is Verified when its digest was recorded from the listing
Verified(off) ==
    /\ DictHas(part_list, off) /\ DictGet(part_list, off) # None
    /\ \A i \in DOMAIN futures : futures[i].byte_pos # off

\* C21: a future that has finished keeps its state, result and exception; a
\* future that is running does not go back to pending; a digest recorded in
\* part_list is never replaced or removed; and the total tree hash is
\* computed only when no future is pending or running.
C21_PartStatesMonotonic ==
    [][/\ \A i \in DOMAIN futures :
            /\ futures[i].state \in {"FINISHED", "CANCELLED"} =>
                /\ futures'[i].state = futures[i].state
                /\ futures'[i].result = futures[i].result
                /\ futures'[i].exception = futures[i].exception
            /\ futures[i].state = "RUNNING" =>
                futures'[i].state \in {"RUNNING", "FINISHED"}
            /\ futures'[i].byte_pos = futures[i].byte_pos
       /\ Len(part_list') = Len(part_list)
       /\ \A k \in 1..Len(part_list) :
            /\ part_list'[k][1] = part_list[k][1]
            /\ part_list[k][2] # None => part_list'[k][2] = part_list[k][2]
       /\ total_tree_hash' # total_tree_hash =>
            /\ \A i \in DOMAIN futures : IsDone(futures[i])
            /\ work_queue = <<>>
            /\ \A k \in 1..Len(part_list) : part_list[k][2] # None
      ]_vars

\* one part Verified, one Uploaded and one Failed at the end of a run
C21_Witness ==
    /\ pc = "raised"
    /\ Len(part_list) = 3
    /\ \E off \in PlannedOffsetSet : Verified(off)
    /\ \E i \in DOMAIN futures :
        Uploaded(futures[i]) /\ DictGet(part_list, futures[i].byte_pos) = None
    /\ \E i \in DOMAIN futures : Failed(futures[i])

\* C22: the completion request is made at most once and the session is
\* never aborted; a run that ends done has made it, with every part
\* confirmed and no exception; a run that ends raising has not made it and
\* reports no success; a run in which a part failed ends raising.
C22_ClosedOnce ==
    /\ api["complete_multipart_upload"] <= 1
    /\ api["abort_multipart_upload"] = 0
    /\ pc = "done" =>
        /\ api["complete_multipart_upload"] = 1
        /\ raising = NoExc
        /\ "Upload can still be resumed. Upload ID" \notin echoed
        /\ \A k \in 1..Len(part_list) : part_list[k][2] # None
        /\ \A i \in DOMAIN futures : ~Failed(futures[i])
    /\ pc = "raised" =>
        /\ api["complete_multipart_upload"] = 0
        /\ raising # NoExc
        /\ "Upload successful." \notin echoed
    /\ api["complete_multipart_upload"] = 1 <=> pc = "done"
    /\ (Terminated /\ \E i \in DOMAIN futures : Failed(futures[i])) =>
        pc = "raised"

C22_Witness ==
    /\ pc = "raised"
    /\ raising = "Transport"
    /\ Len(futures) >= 2
    /\ \E i \in DOMAIN futures : Failed(futures[i])
    /\ \E off \in PlannedOffsetSet : Verified(off)

\* C27: whenever a part is sent, its range header is its start, the last
\* byte of its range and the file size, its start is a multiple of the part
\* size, and its body is the bytes of the file in that range; this also
\* holds of a part that is sent again.
C27_RangeAndBody ==
    \A i \in DOMAIN futures :
        futures[i].wpc = "upload" =>
            LET f == futures[i]
                start == f.byte_pos
                end == Min(start + part_size_bytes, file_size_bytes) - 1
            IN  /\ \E index \in 0..(Len(part_list) - 1) :
                    start = index * part_size_bytes
                /\ f.range_header = <<start, end, file_size_bytes>>
                /\ Len(f.part) = end - start + 1
                /\ \A k \in 1..Len(f.part) : f.part[k] = file_to_upload[start + k]

\* the last, shorter part is being sent again
C27_Witness ==
    \E i \in DOMAIN futures :
        /\ futures[i].wpc = "upload"
        /\ futures[i].retried
        /\ futures[i].attempt = 2
        /\ futures[i].range_header = <<4, 4, 5>>

\* C30: when the completion request is made, the digest recorded for each
\* part is the tree hash of the bytes of the file in its range, and it is
\* the digest the store listed for that offset or the checksum of the
\* upload response that ended the part's upload.
ListedDigests(off) ==
    {parts[k].SHA256TreeHash : k \in {j \in 1..Len(parts) :
                                        parts[j].RangeInBytes[1] = off}}

ResponseDigests(off) ==
    {futures[i].response : i \in {j \in DOMAIN futures :
                                    futures[j].byte_pos = off /\ Uploaded(futures[j])}}

C30_DigestsAgreeAtCompletion ==
    (pc \in {"complete", "done"} \/ api["complete_multipart_upload"] > 0) =>
        \A k \in 1..Len(part_list) :
            LET off == part_list[k][1]
                digest == part_list[k][2]
            IN  /\ digest = LocalPartDigest(off)
                /\ digest \in ListedDigests(off) \cup ResponseDigests(off)
                /\ Verified(off) => digest \in ListedDigests(off)
                /\ ~Verified(off) => digest \in ResponseDigests(off)

\* completed with a verified part and a part accepted on a later attempt
C30_Witness ==
    /\ pc = "done"
    /\ \E off \in PlannedOffsetSet : Verified(off)
    /\ \E i \in DOMAIN futures :
        /\ futures[i].retried
        /\ futures[i].response = DictGet(part_list, futures[i].byte_pos)

\* ------------------------------------------------------- hash claims
\* SHA256(a ++ b) of two digests given and returned as hex strings
PairDigest(a, b) == Sha256Hex(Unhexlify(a) \o Unhexlify(b))

\* the largest power of two smaller than n, for n >= 2
RECURSIVE SplitPoint(_, _)
SplitPoint(p, n) == IF 2 * p < n THEN SplitPoint(2 * p, n) ELSE p

\* the root of the binary tree over the digests in which a left subtree is
\* always complete
RECURSIVE MerkleRoot(_)
MerkleRoot(digests) ==
    IF Len(digests) = 1 THEN digests[1]
    ELSE LET m == SplitPoint(1, Len(digests))
         IN  PairDigest(MerkleRoot(SubSeq(digests, 1, m)),
                        MerkleRoot(SubSeq(digests, m + 1, Len(digests))))

\* C23: the step that computes the total tree hash leaves the digests as
\* they were and yields: of one digest, that digest; of two, the hash of
\* the two joined; of three, the hash of (the hash of the first two joined)
\* joined with the third; of any number, the root of the tree in which
\* neighbours are paired level by level and an odd last one is carried up.
C23_TotalTreeHash ==
    [][(pc = "hash" /\ pc' = "complete") =>
        LET d == DictValues(part_list)
        IN  /\ part_list' = part_list
            /\ total_tree_hash' = MerkleRoot(d)
            /\ Len(d) = 1 => total_tree_hash' = d[1]
            /\ Len(d) = 2 => total_tree_hash' = PairDigest(d[1], d[2])
            /\ Len(d) = 3 =>
                total_tree_hash' = PairDigest(PairDigest(d[1], d[2]), d[3])
      ]_vars

\* three different digests have been combined
C23_Witness ==
    /\ pc = "complete"
    /\ Len(part_list) = 3
    /\ part_list[1][2] # part_list[2][2]
    /\ part_list[2][2] # part_list[3][2]
    /\ part_list[1][2] # part_list[3][2]
    /\ total_tree_hash = PairDigest(PairDigest(part_list[1][2], part_list[2][2]),
                                    part_list[3][2])

\* the SHA-256 digests of the consecutive leaves of MiB bytes, the last one
\* possibly shorter
LeafDigests(bytes) ==
    [k \in 1..Ceil(Len(bytes), MiB) |->
        Sha256Hex(SubSeq(bytes, (k - 1) * MiB + 1, Min(k * MiB, Len(bytes))))]

\* C24: the checksum a worker computes of its part, which is not empty and
\* not longer than the part size, is the total tree hash of the digests of
\* the part's leaves in order.
C24_TreeHashOfLeaves ==
    \A i \in DOMAIN futures :
        futures[i].wpc = "upload" =>
            /\ Len(futures[i].part) \in 1..part_size_bytes
            /\ futures[i].checksum =
                    calculate_total_tree_hash(LeafDigests(futures[i].part))
            /\ futures[i].checksum = MerkleRoot(LeafDigests(futures[i].part))

\* a part of three leaves, the last one shorter, has been hashed
C24_Witness ==
    \E i \in DOMAIN futures :
        /\ futures[i].wpc = "upload"
        /\ Len(futures[i].part) = 2 * MiB + 1
        /\ futures[i].part[1] # futures[i].part[Len(futures[i].part)]

\* -------------------------------------------------- empty range claim
\* C25: no run fails on an empty list of leaf checksums: each verification
\* read and each worker's read yields at least one byte.
C25_NeverHashesEmpty ==
    /\ raising # "IndexError"
    /\ (pc = "verify" /\ verify_i > 1) =>
        fp > parts[verify_i - 1].RangeInBytes[1]
    /\ \A i \in DOMAIN futures :
        futures[i].wpc \in {"hash", "upload"} => futures[i].part # <<>>

\* ------------------------------------------------- confirmation claim
\* C29: when the part size asked for gives too many parts, nothing is sent
\* to the store before the caller has answered; a refusal ends the run with
\* no store call at all, and after an acceptance the session is created
\* with the recomputed part size, which gives few enough parts.
C29_ConfirmBeforeRemote ==
    /\ pc = "call" => NoStoreCall
    /\ raising = "Abort" =>
        /\ NoStoreCall
        /\ pc \in {"close", "raised"}
        /\ part_size_bytes = 0
    /\ (new_part_size # 0 /\ api["initiate_multipart_upload"] = 1) =>
        /\ PartSizeInBytes = new_part_size * MiB
        /\ ~TooManyParts(file_size, PartSizeInBytes \div MiB)

C29_Witness ==
    /\ new_part_size = 2
    /\ api["initiate_multipart_upload"] = 1
    /\ PartSizeInBytes = 2 * MiB

\* ------------------------------------------------ propagation claim
SessionCalls == {"initiate_multipart_upload", "list_parts",
                 "complete_multipart_upload", "upload_archive"}

\* the exceptions a session-level call leaves multipart_upload or
\* upload_archive with
SessionErrors(name) ==
    {CallError(e, name) : e \in StoreErrors}
        \cup (IF name = "list_parts"
              THEN {"ClickException: ResourceNotFoundException"} ELSE {})

\* a part upload has been started: a future was submitted
PartUploadStarted == futures # <<>> \/ to_submit # <<>>

\* C28: an error of a session-level call of the store ends the run with
\* that error: the call is not repeated, the run does not end without an
\* exception, no part upload starts and no completion succeeds after it.
\* An error of a part upload reaches the caller only from a future that
\* has used all MAX_UPLOAD_ATTEMPTS attempts.
C28_SessionErrorsPropagate ==
    /\ \A n \in SessionCalls : api[n] <= 1
    /\ pc = "raised" => raising # NoExc
    /\ \A n \in SessionCalls :
        raising \in SessionErrors(n) =>
            /\ pc \in {"close", "raised"}
            /\ api[n] = 1
            /\ response_checksum = None
            /\ "Upload successful." \notin echoed
            /\ "Done." \notin echoed
            /\ \A i \in DOMAIN futures : futures[i].wpc = "returned"
            /\ work_queue = <<>>
            /\ n # "complete_multipart_upload" =>
                /\ ~PartUploadStarted
                /\ api["complete_multipart_upload"] = 0
    /\ \A i \in DOMAIN futures :
        futures[i].exception # NoExc =>
            futures[i].attempt = MAX_UPLOAD_ATTEMPTS
    /\ raising \in {"Transport", "ChecksumMismatch", "Abort"} =>
        \E i \in DOMAIN futures :
            /\ futures[i].exception # NoExc
            /\ futures[i].attempt = MAX_UPLOAD_ATTEMPTS
            /\ raising = "Abort" \/ raising = futures[i].exception

\* the listing of a resumed session was not found, and the run has ended
\* with the ClickException made of it
C28_Witness ==
    /\ pc = "raised"
    /\ raising = "ClickException: ResourceNotFoundException"
    /\ api["list_parts"] = 1
    /\ ~PartUploadStarted

\* ------------------------------------------------- missing digest claim
\* C26: the total tree hash is computed, and the upload completed, only
\* from a list of checksums with no entry missing: a list with a missing
\* entry after the pool has finished is recalculated from the file first.
C26_NoRootDigestWithGap ==
    (pc \in {"complete", "done"}
        \/ raising \in {"TypeError", "ParamValidationError"}) =>
    \A k \in 1..Len(list_of_checksums) : list_of_checksums[k] # None

\* --------------------------------------------------- planned set claim
\* C31: the verification of the listed parts leaves the planned parts as
\* they are: the keys of part_list are the planned offsets, in order, and
\* the list given to calculate_total_tree_hash has num_parts entries.
C31_PlannedPartsKept ==
    /\ DictKeys(part_list) = PlannedOffsets
    /\ Len(part_list) = num_parts
    /\ pc \in {"hash", "complete", "done"} =>
        Len(DictValues(part_list)) = num_parts

MayStillRead(i) ==
    \/ futures[i].wpc \in {"acquire", "seek", "read"}
    \/ \E k \in 1..Len(work_queue) : work_queue[k] = i

RunEnded ==
    /\ Terminated
    /\ \A i \in DOMAIN futures : IsDone(futures[i])
    /\ work_queue = <<>>
    /\ fileblock = 0
    /\ api["complete_multipart_upload"] = 1 \/ raising # NoExc

\* C34: under a fair scheduler every run of multipart_upload comes to its
\* end: every submitted part has been uploaded, has failed or was
\* cancelled, the lock is free, and the completion request was made or the
\* failure raised.
C34_Terminates == <>RunEnded

\* a run of two threads and two parts has ended with a failure
C34_Witness ==
    /\ RunEnded
    /\ raising # NoExc
    /\ Len(futures) = 2
    /\ num_threads = 2


\* ============================================================ get_job_output
\* get_job_output.py: the output of a completed archive-retrieval job is
\* fetched batch by batch, every batch by batch_request_retrying, and
\* written to file_name. The specification starts at line 22, the job being
\* completed and its action being ArchiveRetrieval.

\* largest end of the retrieval range
MaxFinalByte == 7
\* largest batch size
MaxBatchSize == 3

\* "tries = 10"
InitialTries == 10
\* the status of a response that carries the range asked for
PartialContent == 206

\* the statuses of the responses of glacier.get_job_output to a range
\* request: the range, or the whole output
Statuses == {200, PartialContent}

\* the body of the answer to 'bytes=lo-hi': the bytes of the output at
\* lo..hi, as far as the output goes; the byte at position k is k
RangeBody(range, last) ==
    [k \in 1..(Min(range[2], last) - range[1] + 1) |-> range[1] + k - 1]

\* variant: requests go on until the tries are used up
ShouldRetry_all(t, status) == t > 0

\* "while tries > 0 and status_code != 206"
ShouldRetry(t, status) == t > 0 /\ status # PartialContent

JobOutputInit ==
    /\ NoUpload
    /\ final_byte \in 0..MaxFinalByte
    /\ batch_size \in 1..MaxBatchSize
    /\ range_i = 0
    /\ out_file = NoFile
    /\ batches = <<>>
    /\ byte_range = <<>>
    /\ tries = 0
    /\ status_code = 0
    /\ response_status = 0
    /\ archive = <<>>
    /\ part_files = <<>>
    /\ final_file = NoFile
    /\ part_number = 0
    /\ pc = "retrieval"
    /\ futures = <<>>
    /\ loop_rest = {}
    /\ raising = NoExc
    /\ echoed = {}

\* if final_byte > (batch_size * 2): with open(file_name, "xb") as file:
\*     for i in range(batch_size, final_byte, batch_size):
\* Otherwise nothing is left to execute.
OpenOutput ==
    /\ pc = "retrieval"
    /\ IF final_byte > batch_size * 2
       THEN /\ out_file' = <<>>
            /\ range_i' = Range(batch_size, final_byte, batch_size)[1]
            /\ pc' = "for"
       ELSE /\ pc' = "done"
            /\ UNCHANGED <<out_file, range_i>>
    /\ UNCHANGED <<upload_vars, download_vars, final_byte, batch_size,
                   batches, byte_range, tries, status_code, response_status,
                   futures, loop_rest, raising, echoed>>

\* batch_request_retrying is entered, with 'bytes=i-batch_size - i-1' in
\* the loop and with 'bytes=i - final_byte' after it
CallBatchRequest ==
    /\ pc \in {"for", "last"}
    /\ byte_range' = IF pc = "for"
                     THEN <<range_i - batch_size, range_i - 1>>
                     ELSE <<range_i, final_byte>>
    /\ batches' = Append(batches, byte_range')
    /\ tries' = InitialTries
    /\ status_code' = 0
    /\ pc' = IF pc = "for" THEN "for_while" ELSE "last_while"
    /\ echoed' = IF pc = "last" THEN echoed \cup {"last batch"} ELSE echoed
    /\ UNCHANGED <<upload_vars, download_vars, final_byte, batch_size,
                   range_i, out_file, response_status, futures, loop_rest,
                   raising>>

\* one turn of the while loop: the range is requested
RangeRequest ==
    /\ pc \in {"for_while", "last_while"}
    /\ ShouldRetry(tries, status_code)
    /\ \E status \in Statuses :
        /\ response_status' = status
        /\ status_code' = status
    /\ tries' = tries - 1
    /\ UNCHANGED <<upload_vars, download_vars, final_byte, batch_size,
                   range_i, out_file, batches, byte_range, pc, futures,
                   loop_rest, raising, echoed>>

\* glacier.get_job_output raises: the exception leaves get_job_output
RangeRequestRaises ==
    /\ pc \in {"for_while", "last_while"}
    /\ ShouldRetry(tries, status_code)
    /\ \E e \in StoreErrors : raising' = CallError(e, "get_job_output")
    /\ pc' = "raised"
    /\ UNCHANGED <<upload_vars, download_vars, job_output_vars, futures,
                   loop_rest, echoed>>

\* the while loop is left: "if response['status'] != 206: raise", a raise
\* without an active exception, which is a RuntimeError; otherwise the
\* response is returned, its body is written, and the for loop goes on
BatchReturns ==
    /\ pc \in {"for_while", "last_while"}
    /\ ~ShouldRetry(tries, status_code)
    /\ IF response_status # PartialContent
       THEN /\ raising' = "RuntimeError"
            /\ pc' = "raised"
            /\ UNCHANGED <<out_file, range_i>>
       ELSE /\ out_file' = out_file \o RangeBody(byte_range, final_byte)
            /\ raising' = raising
            /\ IF pc = "last_while"
               THEN pc' = "done" /\ range_i' = range_i
               ELSE IF range_i + batch_size < final_byte
                    THEN pc' = "for" /\ range_i' = range_i + batch_size
                    ELSE pc' = "last" /\ range_i' = range_i
    /\ UNCHANGED <<upload_vars, download_vars, final_byte, batch_size,
                   batches, byte_range, tries, status_code, response_status,
                   futures, loop_rest, echoed>>

JobOutputNext ==
    \/ OpenOutput
    \/ CallBatchRequest
    \/ RangeRequest
    \/ RangeRequestRaises
    \/ BatchReturns

JobOutputSpec == JobOutputInit /\ [][JobOutputNext]_vars

\* the output of the job: the bytes 0..final_byte
JobOutputBytes == [k \in 1..(final_byte + 1) |-> k - 1]

\* the batches asked for so far start at 0 and follow one another
BatchesContiguous ==
    /\ \A k \in DOMAIN batches : batches[k][1] <= batches[k][2]
    /\ batches # <<>> => batches[1][1] = 0
    /\ \A k \in 1..(Len(batches) - 1) : batches[k + 1][1] = batches[k][2] + 1

\* C37: when get_job_output has returned for a completed archive
\* retrieval, the byte ranges of its batches are ascending, contiguous and
\* without overlap, they cover exactly 0..final_byte, and the output file
\* holds the bytes 0..final_byte in that order: for every batch_size >= 1
\* and every final_byte.
C37_BatchesCoverOutput ==
    /\ BatchesContiguous
    /\ pc = "done" =>
        /\ batches # <<>>
        /\ batches[Len(batches)][2] = final_byte
        /\ out_file = JobOutputBytes

\* get_job_output has returned for an output longer than two batches
C37_LongOutputCovered ==
    /\ pc = "done"
    /\ final_byte > batch_size * 2
    /\ Len(batches) > 2
    /\ out_file = JobOutputBytes


\* batch_request_retrying is executing its while loop
Retrying == pc \in {"for_while", "last_while"}

\* C38: one call of batch_request_retrying makes at most 10 range
\* requests; it makes a request only while no response with status 206 has
\* been received; it returns only a response of status 206; and when the
\* tenth response is not a 206 either, it raises.
C38_TenTriesUntilPartialContent ==
    [][/\ InitialTries - tries' \in 0..10
       /\ (Retrying /\ tries' < tries) =>
            /\ status_code # PartialContent
            /\ tries' = tries - 1
       /\ (Retrying /\ pc' \in {"for", "last", "done"}) =>
            /\ response_status = PartialContent
            /\ raising' = NoExc
       /\ (Retrying /\ tries = 0 /\ status_code # PartialContent) =>
            /\ pc' = "raised"
            /\ raising' = "RuntimeError"
            /\ out_file' = out_file]_vars

\* a batch was returned by its tenth request, after nine responses that
\* were not a 206
C38_TenthRequestReturned ==
    /\ pc \in {"for", "last", "done"}
    /\ batches # <<>>
    /\ tries = 0
    /\ response_status = PartialContent
    /\ out_file # <<>>


\* ============================================================== archives.get
\* archives.py: get downloads the output of a completed, succeeded archive
\* retrieval. An archive of at least CHUNK_SIZE bytes is downloaded in parts
\* by download_archive_part, one task per part on a thread pool; the part
\* files are then consolidated into file_name and deleted. The
\* specification starts at line 102, with content_length >= CHUNK_SIZE. A
\* part file is named by its part number, which f"{part_number:04}" only
\* pads.

\* largest archive, in chunks
MaxChunks == 2
\* most bytes of an archive beyond a whole number of chunks
MaxTail == 1

\* 32 * 1024 * 1024
CHUNK_SIZE == 32 * MiB

content_length == Len(archive)

\* range(0, content_length, CHUNK_SIZE)
StartBytes == Range(0, content_length, CHUNK_SIZE)

\* the bytes the store holds for 'bytes=start_byte-start_byte+CHUNK_SIZE-1',
\* as far as the archive goes
RangeBytes(start_byte) == FileRead(archive, start_byte, CHUNK_SIZE)

\* the tree hash of a whole byte string
TreeHashOf(data) == calculate_tree_hash(data, Len(data))

\* job_output["checksum"]: the store's tree hash of the range
RangeChecksum(start_byte) == TreeHashOf(RangeBytes(start_byte))

\* what a part file may hold when get starts: nothing of it exists, the
\* part as an earlier run downloaded it, other bytes of that length, the
\* empty file that open(part_file_name, "wb") leaves when the stream fails
\* before its first chunk, or the part followed by further bytes
PartFileKinds == {"absent", "verified", "other", "empty", "longer"}

ExistingPartFile(kind, start_byte) ==
    CASE kind = "absent" -> NoFile
      [] kind = "verified" -> RangeBytes(start_byte)
      [] kind = "other" -> StaleBytes(RangeBytes(start_byte))
      [] kind = "empty" -> <<>>
      [] kind = "longer" -> RangeBytes(start_byte) \o <<77>>

\* file_contents before verify_file_checksum has read a file
Unread == <<-3>>

\* the state of a task that executor.submit has just accepted
NewDownload(start_byte) ==
    [start_byte |-> start_byte, state |-> "PENDING", result |-> None,
     exception |-> NoExc, step |-> "request", checksum |-> None,
     body |-> None, file_contents |-> Unread]

\* calculate_tree_hash(file_contents, max_size) == checksum, where
\* max_size is CHUNK_SIZE
verify_file_checksum(file_contents, checksum) ==
    calculate_tree_hash(file_contents, CHUNK_SIZE) = checksum

\* calculate_tree_hash of no bytes raises IndexError
VerifyRaises(file_contents) ==
    calculate_tree_hash(file_contents, CHUNK_SIZE) = IndexError

DownloadInit ==
    /\ NoUpload
    /\ final_byte = 0
    /\ batch_size = 0
    /\ range_i = 0
    /\ out_file = NoFile
    /\ batches = <<>>
    /\ byte_range = <<>>
    /\ tries = 0
    /\ status_code = 0
    /\ response_status = 0
    /\ \E size \in CHUNK_SIZE..(MaxChunks * CHUNK_SIZE) :
        /\ size % CHUNK_SIZE <= MaxTail
        /\ archive = FileBytes(size)
    /\ \E kinds \in [1..Len(StartBytes) -> PartFileKinds] :
        part_files = [k \in 1..Len(StartBytes) |->
                        ExistingPartFile(kinds[k], StartBytes[k])]
    /\ final_file \in {NoFile, <<99>>}
    /\ part_number = 0
    /\ pc = "submit"
    /\ futures = <<>>
    /\ loop_rest = {}
    /\ raising = NoExc
    /\ echoed = <<>>

\* future_list = {executor.submit(download_archive_part, ...): start_byte
\*                for start_byte in range(0, content_length, CHUNK_SIZE)}
SubmitParts ==
    /\ pc = "submit"
    /\ futures' = [k \in 1..Len(StartBytes) |-> NewDownload(StartBytes[k])]
    /\ loop_rest' = 1..Len(StartBytes)
    /\ pc' = "as_completed"
    /\ UNCHANGED <<upload_vars, job_output_vars, download_vars, raising,
                   echoed>>

\* download_archive_part starts: glacier_client.get_job_output(range=...),
\* which gives the checksum of the range and a stream of its bytes, intact
\* or not, or raises
RequestPart(id) ==
    /\ futures[id].state = "PENDING"
    /\ \/ \E body \in {RangeBytes(futures[id].start_byte),
                       StaleBytes(RangeBytes(futures[id].start_byte))} :
            futures' = [futures EXCEPT
                          ![id].state = "RUNNING",
                          ![id].step = "lexists",
                          ![id].checksum = RangeChecksum(futures[id].start_byte),
                          ![id].body = body]
       \/ \E e \in StoreErrors :
            futures' = [futures EXCEPT
                          ![id].state = "FINISHED",
                          ![id].exception = CallError(e, "get_job_output")]
    /\ UNCHANGED <<upload_vars, job_output_vars, download_vars, pc,
                   loop_rest, raising, echoed>>

\* if os.path.lexists(part_file_name):
\*     if verify_file_checksum(part_file_name, job_output["checksum"]):
\*         return "skipped"
\* file_contents is what verify_file_checksum has read, NoFile without a
\* part file
CheckPartFile(id) ==
    /\ futures[id].state = "RUNNING"
    /\ futures[id].step = "lexists"
    /\ LET part_file == part_files[futures[id].start_byte \div CHUNK_SIZE + 1]
           verified == verify_file_checksum(part_file, futures[id].checksum)
       IN  futures' =
             IF part_file = NoFile
             THEN [futures EXCEPT ![id].step = "write",
                                  ![id].file_contents = NoFile]
             ELSE IF VerifyRaises(part_file)
             THEN [futures EXCEPT ![id].state = "FINISHED",
                                  ![id].exception = "IndexError",
                                  ![id].file_contents = part_file]
             ELSE IF verified
             THEN [futures EXCEPT ![id].state = "FINISHED",
                                  ![id].result = "skipped",
                                  ![id].file_contents = part_file]
             ELSE [futures EXCEPT ![id].step = "write",
                                  ![id].file_contents = part_file]
    /\ UNCHANGED <<upload_vars, job_output_vars, download_vars, pc,
                   loop_rest, raising, echoed>>

\* with open(part_file_name, "wb") as f: the chunks of the stream are
\* written; or the stream fails before its first chunk
WritePart(id) ==
    /\ futures[id].state = "RUNNING"
    /\ futures[id].step = "write"
    /\ LET k == futures[id].start_byte \div CHUNK_SIZE + 1
       IN  \/ /\ part_files' = [part_files EXCEPT ![k] = futures[id].body]
              /\ futures' = [futures EXCEPT ![id].step = "verify"]
           \/ /\ part_files' = [part_files EXCEPT ![k] = <<>>]
              /\ futures' = [futures EXCEPT ![id].state = "FINISHED",
                                            ![id].exception = "Transport"]
    /\ UNCHANGED <<upload_vars, job_output_vars, archive, final_file,
                   part_number, pc, loop_rest, raising, echoed>>

\* if not verify_file_checksum(part_file_name, job_output["checksum"]):
\*     raise Exception(f"Checksums do not match for part {part_number}")
VerifyWritten(id) ==
    /\ futures[id].state = "RUNNING"
    /\ futures[id].step = "verify"
    /\ LET part_file == part_files[futures[id].start_byte \div CHUNK_SIZE + 1]
           verified == verify_file_checksum(part_file, futures[id].checksum)
       IN  futures' =
             IF VerifyRaises(part_file)
             THEN [futures EXCEPT ![id].state = "FINISHED",
                                  ![id].exception = "IndexError"]
             ELSE IF verified
             THEN [futures EXCEPT ![id].state = "FINISHED"]
             ELSE [futures EXCEPT ![id].state = "FINISHED",
                                  ![id].exception = "Exception: Checksums do not match"]
    /\ UNCHANGED <<upload_vars, job_output_vars, download_vars, pc,
                   loop_rest, raising, echoed>>

\* one iteration of "for future in as_completed(future_list)":
\* result = future.result() re-raises; otherwise the part is reported
AsCompleted ==
    /\ pc = "as_completed"
    /\ \E id \in loop_rest :
        /\ futures[id].state = "FINISHED"
        /\ IF FutureRaises(futures[id])
           THEN /\ raising' = futures[id].exception
                /\ pc' = "exit"
                /\ UNCHANGED <<loop_rest, echoed>>
           ELSE /\ loop_rest' = loop_rest \ {id}
                /\ echoed' = Append(echoed,
                     <<IF futures[id].result = "skipped"
                       THEN "Skipping part" ELSE "File part downloaded",
                       futures[id].start_byte \div CHUNK_SIZE>>)
                /\ pc' = IF loop_rest' = {} THEN "exit" ELSE "as_completed"
                /\ raising' = raising
    /\ UNCHANGED <<upload_vars, job_output_vars, download_vars, futures>>

\* leaving "with ThreadPoolExecutor": every task submitted has run and
\* ended
PartsJoined(futs) == \A id \in DOMAIN futs : futs[id].state = "FINISHED"

\* the with block is left, normally or by the exception
PoolExit ==
    /\ pc = "exit"
    /\ PartsJoined(futures)
    /\ pc' = IF raising # NoExc THEN "raised" ELSE "open"
    /\ UNCHANGED <<upload_vars, job_output_vars, download_vars, futures,
                   loop_rest, raising, echoed>>

\* with open(file_name, "wb") as final_file
OpenFinalFile ==
    /\ pc = "open"
    /\ final_file' = <<>>
    /\ part_number' = 0
    /\ pc' = "consolidate"
    /\ UNCHANGED <<upload_vars, job_output_vars, archive, part_files,
                   futures, loop_rest, raising, echoed>>

\* variant: the part files are read from the last to the first
ConsolidationOrder_descending(n) == [k \in 1..n |-> n - k]

\* trange(len(future_list)): the part numbers in the order of the loop
ConsolidationOrder(n) == [k \in 1..n |-> k - 1]

\* one iteration: final_file.write(part_file.read())
ConsolidatePart ==
    /\ pc = "consolidate"
    /\ LET number == ConsolidationOrder(Len(futures))[part_number + 1]
       IN  IF part_files[number + 1] = NoFile
           THEN /\ raising' = "FileNotFoundError"
                /\ pc' = "raised"
                /\ UNCHANGED <<final_file, part_number>>
           ELSE /\ final_file' = final_file \o part_files[number + 1]
                /\ raising' = raising
                /\ IF part_number + 1 < Len(futures)
                   THEN pc' = pc /\ part_number' = part_number + 1
                   ELSE pc' = "delete" /\ part_number' = 0
    /\ UNCHANGED <<upload_vars, job_output_vars, archive, part_files,
                   futures, loop_rest, echoed>>

\* one iteration: os.remove(os.path.join(parts_dir, f"{part_number:04}"))
DeletePart ==
    /\ pc = "delete"
    /\ part_files' = [part_files EXCEPT ![part_number + 1] = NoFile]
    /\ IF part_number + 1 < Len(futures)
       THEN pc' = pc /\ part_number' = part_number + 1
       ELSE pc' = "rmdir" /\ part_number' = part_number
    /\ UNCHANGED <<upload_vars, job_output_vars, archive, final_file,
                   futures, loop_rest, raising, echoed>>

\* os.rmdir(parts_dir); click.echo("Archive downloaded.")
RemovePartsDir ==
    /\ pc = "rmdir"
    /\ pc' = "done"
    /\ echoed' = Append(echoed, <<"Archive downloaded.", Len(futures)>>)
    /\ UNCHANGED <<upload_vars, job_output_vars, download_vars, futures,
                   loop_rest, raising>>

DownloadNext ==
    \/ SubmitParts
    \/ \E id \in DOMAIN futures :
        \/ RequestPart(id)
        \/ CheckPartFile(id)
        \/ WritePart(id)
        \/ VerifyWritten(id)
    \/ AsCompleted
    \/ PoolExit
    \/ OpenFinalFile
    \/ ConsolidatePart
    \/ DeletePart
    \/ RemovePartsDir

DownloadSpec == DownloadInit /\ [][DownloadNext]_vars


\* the part files 0..n-1, one after the other
RECURSIVE ConcatParts(_)
ConcatParts(n) ==
    IF n = 0 THEN <<>> ELSE ConcatParts(n - 1) \o part_files[n]

\* a task of the download raised
SomePartRaised == \E id \in DOMAIN futures : futures[id].exception # NoExc

\* every task of the download has ended without an exception
AllPartsSucceeded ==
    /\ futures # <<>>
    /\ \A id \in DOMAIN futures :
        /\ futures[id].state = "FINISHED"
        /\ futures[id].exception = NoExc

\* what the consolidation has written agrees with the part files: the
\* first part_number of them, in ascending order, while it runs, and all
\* of them when the deletion is about to start
ConsolidatedAscending ==
    /\ pc = "consolidate" => final_file = ConcatParts(part_number)
    /\ (pc = "delete" /\ part_number = 0) =>
        final_file = ConcatParts(Len(futures))

\* C35: in the chunked download the final file is written only when every
\* part's task has ended without an error; it is the concatenation of the
\* part files in ascending part number; a part file is deleted only when
\* the final file is fully written, which no later step changes; and once
\* a part task has raised, the final file is not written and no part file
\* is deleted.
C35_ConsolidatedAfterAllParts ==
    [][/\ final_file' # final_file => AllPartsSucceeded
       /\ ConsolidatedAscending'
       /\ \A k \in DOMAIN part_files :
            (part_files[k] # NoFile /\ part_files'[k] = NoFile) =>
                /\ pc = "delete"
                /\ AllPartsSucceeded
       /\ pc \in {"delete", "rmdir", "done"} => final_file' = final_file
       /\ SomePartRaised =>
            /\ final_file' = final_file
            /\ \A k \in DOMAIN part_files :
                part_files[k] # NoFile => part_files'[k] # NoFile]_vars

\* a download of two parts has ended; the second part was the first to
\* complete; the final file holds the archive and the part files are gone
C35_SecondPartFirst ==
    /\ pc = "done"
    /\ Len(futures) = 2
    /\ echoed[1][2] = 1
    /\ echoed[2][2] = 0
    /\ final_file = archive
    /\ \A k \in DOMAIN part_files : part_files[k] = NoFile


\* the part file of a task
PartFileOf(id) == part_files[futures[id].start_byte \div CHUNK_SIZE + 1]

\* a file exists and its tree hash is the checksum given
FileVerified(file_contents, checksum) ==
    /\ file_contents # NoFile
    /\ TreeHashOf(file_contents) = checksum

\* the task has looked for its part file
Looked(id) == futures[id].file_contents # Unread

\* no part file has been deleted yet
PartFilesKept == pc \notin {"delete", "rmdir", "done"}

\* C36: download_archive_part skips a part whose file exists with the tree
\* hash the store reports for the range, and leaves the file as it is; any
\* other part it downloads again; the task ends without an error only if
\* the tree hash of its part file is the store's checksum, and with an
\* error if the file written has another hash; so every part file that is
\* consolidated has the store's checksum.
C36_PartsResumedAndVerified ==
    /\ \A id \in DOMAIN futures :
        /\ Looked(id) =>
            IF FileVerified(futures[id].file_contents, futures[id].checksum)
            THEN /\ futures[id].state = "FINISHED"
                 /\ futures[id].result = "skipped"
                 /\ futures[id].exception = NoExc
                 /\ PartFilesKept => PartFileOf(id) = futures[id].file_contents
            ELSE /\ futures[id].result # "skipped"
                 /\ futures[id].exception \in
                        {NoExc, "Transport", "Exception: Checksums do not match"}
        /\ (futures[id].state = "FINISHED" /\ PartFilesKept) =>
            /\ futures[id].exception = NoExc =>
                FileVerified(PartFileOf(id), futures[id].checksum)
            /\ futures[id].exception = "Exception: Checksums do not match" =>
                ~FileVerified(PartFileOf(id), futures[id].checksum)
    /\ pc \in {"open", "consolidate"} =>
        \A id \in DOMAIN futures :
            FileVerified(PartFileOf(id), futures[id].checksum)

====
